---- MODULE Spec2Model ----
(***************************************************************************)
(* Model of the Spreedly transport layer                                   *)
(* (src/nodes/Spreedly/transport/index.ts): the authenticated request      *)
(* executor spreedlyApiRequest and the paginated collector                 *)
(* spreedlyApiRequestAllItems, together with the host HTTP transport and   *)
(* the remote server they talk to.                                         *)
(*                                                                         *)
(* JavaScript values are modelled as follows.                              *)
(*   - a mapping (IDataObject) is a function whose DOMAIN is its key set;  *)
(*   - undefined is the value Undefined; a string is a TLA+ string;        *)
(*   - the value found at responseData[propertyName] is a tagged record:   *)
(*     an array with its items, undefined, a string of a given length, or  *)
(*     a plain object with or without a length property.                   *)
(***************************************************************************)
EXTENDS Integers, Sequences, FiniteSets, TLC

VARIABLES
    pc,            \* position of the single call chain
    call,          \* the arguments of the caller's invocation
    credentials,   \* what this.getCredentials('spreedlyApi') resolves to
    returnData,    \* spreedlyApiRequestAllItems: accumulated items
    responseData,  \* spreedlyApiRequestAllItems: last response
    sinceToken,    \* spreedlyApiRequestAllItems: the cursor
    apiArgs,       \* arguments of the running spreedlyApiRequest invocation
    inflight,      \* requests handed to helpers.httpRequest, not yet settled
    apiCalls,      \* history: arguments of every spreedlyApiRequest invocation
    httpLog,       \* history: options of every helpers.httpRequest call
    outcomes,      \* history: how every helpers.httpRequest call settled
    result,        \* what the caller's invocation returned or threw
    server,        \* the remote service the run talks to
    fx,            \* a utility function under evaluation: input and output
    licensingNoticeDisplayed,  \* utils: the module-level latch
    consoleLog,    \* what console.warn has printed in this process
    runs           \* the node invocations of this process, in start order

\* State of the transport layer.
transportVars ==
    << pc, call, credentials, returnData, responseData, sinceToken,
       apiArgs, inflight, apiCalls, httpLog, outcomes, result, server >>

\* State outside the transport layer: utilities and the two nodes.
nodeVars == << licensingNoticeDisplayed, consoleLog, runs >>
outerVars == << fx, nodeVars >>

vars == << transportVars, outerVars >>

(***************************************************************************)
(* Bounds of the model.                                                    *)
(***************************************************************************)
\* The server answers at most MaxRequests page requests of one invocation
\* with a page that asks for another request.
MaxRequests == 3
\* Largest collection held by the cursor-respecting server.
MaxColl == 45

(***************************************************************************)
(* Program constants.                                                      *)
(***************************************************************************)
PAGE_SIZE == 20
SPREEDLY_API_BASE_URL == "https://core.spreedly.com/v1"

(***************************************************************************)
(* JavaScript values.                                                      *)
(***************************************************************************)
Undefined == "<undefined>"
EmptyObject == [k \in {} |-> Undefined]

\* obj[key]: undefined when the key is absent
Get(obj, key) == IF key \in DOMAIN obj THEN obj[key] ELSE Undefined

\* truthiness of a string-or-undefined value
Truthy(v) == v # Undefined /\ v # ""

\* a || b
JsOr(a, b) == IF Truthy(a) THEN a ELSE b

\* `${v}`
TemplateString(v) == IF v = Undefined THEN "undefined" ELSE v

ArrayVal(items) == [type |-> "array", items |-> items]
UndefinedVal == [type |-> "undefined"]
StringVal(n) == [type |-> "string", length |-> n]
ObjectVal == [type |-> "object"]
ObjectWithLength(n) == [type |-> "objectWithLength", length |-> n]

\* A string and a number as typed values: "422" and 422 are different values.
StringOf(s) == [type |-> "string", string |-> s]
NumberOf(n) == [type |-> "number", number |-> n]

\* truthiness of a tagged value
TruthyVal(v) ==
    CASE v.type = "undefined" -> FALSE
      [] v.type = "string" -> v.length > 0
      [] OTHER -> TRUE

\* Array.isArray(v)
IsArray(v) == v.type = "array"

\* v?.length === n
LengthIs(v, n) ==
    CASE v.type = "array" -> Len(v.items) = n
      [] v.type = "string" -> v.length = n
      [] v.type = "objectWithLength" -> v.length = n
      [] OTHER -> FALSE

(***************************************************************************)
(* Inputs: what callers pass and what the remote service can answer.       *)
(***************************************************************************)
\* Credential records the host can hand out.
Credentials ==
    { [environmentKey |-> "env1", accessSecret |-> "secret1", sandbox |-> FALSE],
      [environmentKey |-> "env2", accessSecret |-> "secret2", sandbox |-> TRUE] }

\* body arguments: the default {} or a payload
Bodies == { EmptyObject, [gateway |-> "fields"] }

\* query arguments: the default {}, a filter, or a caller-chosen since_token
Queries == { EmptyObject, [order |-> "desc"], [since_token |-> "tok3"] }

\* Invocations of spreedlyApiRequest by an operation module.
ApiRequestCalls ==
    [ fn : {"spreedlyApiRequest"}, method : {"GET", "POST", "PUT", "DELETE"},
      endpoint : {"/gateways.json", "/certificates/tok1.json"},
      propertyName : {Undefined},
      body : Bodies, query : {EmptyObject, [order |-> "desc"]} ]

\* Invocations of spreedlyApiRequestAllItems.
AllItemsCalls ==
    [ fn : {"spreedlyApiRequestAllItems"}, method : {"GET"},
      endpoint : {"/gateways.json"}, propertyName : {"gateways"},
      body : Bodies, query : Queries ]

\* The token of the n-th object of the remote collection.
Tok(n) == "tok" \o ToString(n)

\* An item of a list response: an object whose token field can be missing.
Item(n, token) ==
    IF token = Undefined THEN [id |-> n] ELSE [id |-> n, token |-> token]

\* A page of len items numbered base+1 .. base+len whose last item carries
\* the token lastToken (its own token, an empty one, or none at all).
Page(base, len, lastToken) ==
    [ i \in 1..len |->
        Item(base + i, IF i = len THEN lastToken ELSE Tok(base + i)) ]

\* Full pages: exactly PAGE_SIZE items. The same items can come back on two
\* pages, and the last token can be its own, another one, empty or missing.
FullPages ==
    { Page(base, PAGE_SIZE, t) :
        base \in {0, PAGE_SIZE},
        t \in { Tok(PAGE_SIZE), Tok(2 * PAGE_SIZE), "", Undefined } }

\* Pages of another length.
OtherPages ==
    { Page(0, len, Tok(len)) : len \in {0, 5, 7, PAGE_SIZE - 1, PAGE_SIZE + 1} }

\* Values a response can hold at propertyName that are not arrays.
NonArrayVals ==
    { UndefinedVal, StringVal(0), StringVal(3), StringVal(PAGE_SIZE),
      ObjectVal, ObjectWithLength(PAGE_SIZE) }

\* A response body holding value v at key; v undefined means the key is absent.
ResponseWith(key, v) ==
    IF v = UndefinedVal THEN [other |-> ObjectVal]
    ELSE [k \in {key} |-> v]

\* Responses to a list request.
ListResponses ==
    { ResponseWith("gateways", v) :
        v \in { ArrayVal(p) : p \in FullPages \cup OtherPages } \cup NonArrayVals }

\* Responses to a single-resource request.
ResourceResponses == { [gateway |-> ObjectVal], EmptyObject }

\* Bodies of a failed response: errors and message are each absent or present;
\* errors can be empty, and a message can be the empty string.
ErrorBodies ==
    { e @@ m :
        e \in { EmptyObject } \cup
              { [errors |-> l] :
                  l \in { << >>, << EmptyObject >>, << [message |-> ""] >>,
                          << [message |-> "Invalid token"] >> } },
        m \in { EmptyObject, [message |-> ""], [message |-> "Bad request"] } }

\* Errors the host transport rejects with: with a response (non-2xx) ...
ResponseErrors ==
    { [message |-> "Request failed", response |-> r] :
        r \in { [statusCode |-> 422, body |-> b] : b \in ErrorBodies }
              \cup { [statusCode |-> 500], [body |-> [message |-> "Bad request"]] } }

\* ... or without one (network-level failure).
NetworkErrors == { [message |-> "ECONNRESET"] }

(***************************************************************************)
(* spreedlyApiRequest                                                      *)
(***************************************************************************)
\* BuildOptions attaching the body whatever it holds.
BuildOptions_AlwaysBody(cred, method, endpoint, body, query) ==
    [ method |-> method,
      url |-> SPREEDLY_API_BASE_URL \o endpoint,
      headers |-> [ContentType |-> "application/json", Accept |-> "application/json"],
      auth |-> [username |-> cred.environmentKey, password |-> cred.accessSecret],
      json |-> TRUE,
      body |-> body ]
    @@ (IF DOMAIN query # {} THEN [qs |-> query] ELSE EmptyObject)

\* BuildOptions with the two credential fields exchanged.
BuildOptions_SwappedAuth(cred, method, endpoint, body, query) ==
    [ method |-> method,
      url |-> SPREEDLY_API_BASE_URL \o endpoint,
      headers |-> [ContentType |-> "application/json", Accept |-> "application/json"],
      auth |-> [username |-> cred.accessSecret, password |-> cred.environmentKey],
      json |-> TRUE ]
    @@ (IF DOMAIN body # {} THEN [body |-> body] ELSE EmptyObject)
    @@ (IF DOMAIN query # {} THEN [qs |-> query] ELSE EmptyObject)

\* The IHttpRequestOptions built for one call.
BuildOptions(cred, method, endpoint, body, query) ==
    [ method |-> method,
      url |-> SPREEDLY_API_BASE_URL \o endpoint,
      headers |-> [ContentType |-> "application/json", Accept |-> "application/json"],
      auth |-> [username |-> cred.environmentKey, password |-> cred.accessSecret],
      json |-> TRUE ]
    @@ (IF DOMAIN body # {} THEN [body |-> body] ELSE EmptyObject)
    @@ (IF DOMAIN query # {} THEN [qs |-> query] ELSE EmptyObject)

\* error.response.body?.errors?.[0]?.message
ErrorsFirstMessage(error) ==
    IF "body" \notin DOMAIN error.response THEN Undefined
    ELSE IF "errors" \notin DOMAIN error.response.body THEN Undefined
    ELSE IF Len(error.response.body.errors) = 0 THEN Undefined
    ELSE Get(error.response.body.errors[1], "message")

\* error.response.body?.message
BodyMessage(error) ==
    IF "body" \notin DOMAIN error.response THEN Undefined
    ELSE Get(error.response.body, "message")

\* ErrorMessage preferring the body's message to errors[0].message.
ErrorMessage_BodyFirst(error) ==
    JsOr(JsOr(BodyMessage(error), ErrorsFirstMessage(error)), error.message)

\* errors[0].message || body.message || error.message
ErrorMessage(error) ==
    JsOr(JsOr(ErrorsFirstMessage(error), BodyMessage(error)), error.message)

\* error.response.statusCode?.toString()
HttpCode(error) ==
    IF "statusCode" \in DOMAIN error.response
    THEN StringOf(ToString(error.response.statusCode)) ELSE UndefinedVal

\* CatchError passing the service's message on without the prefix.
CatchError_NoPrefix(error) ==
    IF "response" \in DOMAIN error
    THEN [ name |-> "NodeApiError",
           cause |-> error,
           message |-> TemplateString(ErrorMessage(error)),
           httpCode |-> HttpCode(error) ]
    ELSE error

\* CatchError wrapping every transport error, with or without a response.
CatchError_AlwaysWrap(error) ==
    [ name |-> "NodeApiError",
      cause |-> error,
      message |-> "Spreedly API Error: " \o error.message,
      httpCode |-> UndefinedVal ]

\* The catch block: what spreedlyApiRequest throws for a transport error.
CatchError(error) ==
    IF "response" \in DOMAIN error
    THEN [ name |-> "NodeApiError",
           cause |-> error,
           message |-> "Spreedly API Error: " \o TemplateString(ErrorMessage(error)),
           httpCode |-> HttpCode(error) ]
    ELSE error

(***************************************************************************)
(* spreedlyApiRequestAllItems                                              *)
(***************************************************************************)
\* responseData[propertyName]
Prop(resp, propertyName) ==
    IF propertyName \in DOMAIN resp THEN resp[propertyName] ELSE UndefinedVal

\* const paginatedQuery = { ...query }; if (sinceToken) since_token = sinceToken
PaginatedQuery(query, since) ==
    IF Truthy(since) THEN ("since_token" :> since) @@ query ELSE query

\* Accumulate skipping the items already collected.
Accumulate_Dedup(data, items) ==
    IF TruthyVal(items) /\ IsArray(items)
    THEN data \o SelectSeq(items.items, LAMBDA x : \A i \in 1..Len(data) : data[i] # x)
    ELSE data

\* returnData after the page held at items
Accumulate(data, items) ==
    IF TruthyVal(items) /\ IsArray(items) THEN data \o items.items ELSE data

\* AdvanceCursor taking the token of the first item of the page.
AdvanceCursor_FirstItem(since, items) ==
    IF TruthyVal(items) /\ IsArray(items) /\ Len(items.items) > 0
    THEN Get(items.items[1], "token")
    ELSE since

\* AdvanceCursor leaving the cursor where it is.
AdvanceCursor_Stale(since, items) == since

\* sinceToken after the page held at items
AdvanceCursor(since, items) ==
    IF TruthyVal(items) /\ IsArray(items) /\ Len(items.items) > 0
    THEN Get(items.items[Len(items.items)], "token")
    ELSE since

\* HasMorePages continuing on every non-empty page.
HasMorePages_NonEmpty(resp, propertyName) ==
    /\ IsArray(Prop(resp, propertyName))
    /\ Len(Prop(resp, propertyName).items) > 0

\* the while condition: responseData[propertyName]?.length === 20
HasMorePages(resp, propertyName) == LengthIs(Prop(resp, propertyName), PAGE_SIZE)

(***************************************************************************)
(* Big naturals: sequences of digits in base 2^DigitBits, most significant *)
(* digit first, no leading zero digit (0 has no digit).                    *)
(***************************************************************************)
DigitBits == 15
Radix == 2 ^ DigitBits

\* The digits of the natural n.
RECURSIVE NatDigits(_)
NatDigits(n) == IF n = 0 THEN << >> ELSE Append(NatDigits(n \div Radix), n % Radix)

\* The natural written by digits b (below 2^31).
RECURSIVE DigitsNat(_)
DigitsNat(b) ==
    IF b = << >> THEN 0 ELSE Radix * DigitsNat(SubSeq(b, 1, Len(b) - 1)) + b[Len(b)]

RECURSIVE Strip(_)
Strip(b) == IF b # << >> /\ Head(b) = 0 THEN Strip(Tail(b)) ELSE b

\* b * c + carry for naturals c, carry up to 2^15, from digit i down
RECURSIVE MulAddFrom(_, _, _, _, _)
MulAddFrom(b, c, i, carry, acc) ==
    IF i = 0 THEN NatDigits(carry) \o acc
    ELSE LET t == b[i] * c + carry
         IN  MulAddFrom(b, c, i - 1, t \div Radix, << t % Radix >> \o acc)

MulAdd(b, c, carry) == Strip(MulAddFrom(b, c, Len(b), carry, << >>))

\* quotient and remainder of b by a natural d up to 2^15, from digit i on
RECURSIVE LongDivFrom(_, _, _, _, _)
LongDivFrom(b, d, i, rem, quot) ==
    IF i > Len(b) THEN [quot |-> Strip(quot), rem |-> rem]
    ELSE LET r == Radix * rem + b[i]
         IN  LongDivFrom(b, d, i + 1, r % d, Append(quot, r \div d))

LongDiv(b, d) == LongDivFrom(b, d, 1, 0, << >>)

\* b * 2^s
ShiftLeft(b, s) ==
    IF b = << >> THEN b
    ELSE MulAdd(b, 2 ^ (s % DigitBits), 0) \o [i \in 1..(s \div DigitBits) |-> 0]

\* floor(b / 2^s), and whether nothing was lost
ShiftRight(b, s) ==
    LET drop == s \div DigitBits
        d == LongDiv(SubSeq(b, 1, Len(b) - drop), 2 ^ (s % DigitBits))
    IN  [quot |-> d.quot,
         exact |-> /\ d.rem = 0
                   /\ \A i \in (Len(b) - drop + 1)..Len(b) : i >= 1 => b[i] = 0]

IsOdd(b) == b # << >> /\ b[Len(b)] % 2 = 1

\* the number of binary digits of b
BitLength(b) ==
    IF b = << >> THEN 0
    ELSE DigitBits * (Len(b) - 1)
            + CHOOSE k \in 1..DigitBits : 2 ^ (k - 1) <= b[1] /\ b[1] < 2 ^ k

Leq(a, b) ==
    \/ Len(a) < Len(b)
    \/ /\ Len(a) = Len(b)
       /\ \/ a = b
          \/ \E i \in 1..Len(a) :
                /\ a[i] < b[i]
                /\ \A j \in 1..(i - 1) : a[j] = b[j]

DigitAt(b, k) == IF k <= Len(b) THEN b[Len(b) + 1 - k] ELSE 0

\* a + b, from the k-th lowest digit up
RECURSIVE AddFrom(_, _, _, _, _)
AddFrom(a, b, k, carry, acc) ==
    IF k > Len(a) /\ k > Len(b) THEN NatDigits(carry) \o acc
    ELSE LET t == DigitAt(a, k) + DigitAt(b, k) + carry
         IN  AddFrom(a, b, k + 1, t \div Radix, << t % Radix >> \o acc)

Add(a, b) == Strip(AddFrom(a, b, 1, 0, << >>))

(***************************************************************************)
(* JavaScript numbers.  A number is an IEEE-754 double: here a positive    *)
(* double is [mant, exp] standing for mant * 2^exp, with mant a natural of *)
(* exactly 53 binary digits; zero has mantissa 0.  Every arithmetic result *)
(* is rounded to the nearest double, ties to even.                         *)
(***************************************************************************)
MantissaBits == 53

Zero == [mant |-> << >>, exp |-> 0]

\* The double nearest to (num / den) * 2^exp, for a natural num below 2^64
\* and a natural den from 1 to 1024: round to nearest, ties to even.
RoundToDouble(num, den, exp) ==
    IF num = << >> THEN Zero
    ELSE LET s == MantissaBits + 11 - BitLength(num)
             d == LongDiv(ShiftLeft(num, s), den)
             t == BitLength(d.quot) - MantissaBits
             withGuard == ShiftRight(d.quot, t - 1)
             guard == IsOdd(withGuard.quot)
             keep == ShiftRight(withGuard.quot, 1).quot
             sticky == d.rem # 0 \/ ~withGuard.exact
             up == guard /\ (sticky \/ IsOdd(keep))
             m == IF up THEN MulAdd(keep, 1, 1) ELSE keep
         IN  IF BitLength(m) > MantissaBits
             THEN [mant |-> ShiftRight(m, 1).quot, exp |-> exp - s + t + 1]
             ELSE [mant |-> m, exp |-> exp - s + t]

\* The double a decimal literal digits / scale denotes (scale 1, 100, 1000)
Literal(digits, scale) == RoundToDouble(digits, scale, 0)

\* x * c for a small natural c
TimesSmall(x, c) == RoundToDouble(MulAdd(x.mant, c, 0), 1, x.exp)

\* x / c for a small natural c
DividedBySmall(x, c) == RoundToDouble(x.mant, c, x.exp)

\* the whole part of x
IntegerDigits(x) ==
    IF x.exp >= 0 THEN ShiftLeft(x.mant, x.exp)
    ELSE ShiftRight(x.mant, -x.exp).quot

\* Math.round(x), x >= 0: floor(x + 1/2)
MathRound(x) ==
    IF x.exp >= 0 THEN x
    ELSE LET halves == ShiftRight(x.mant, -x.exp - 1).quot
         IN  RoundToDouble(ShiftRight(MulAdd(halves, 1, 1), 1).quot, 1, 0)

\* x has no fractional part
IsIntegerNumber(x) == x.exp >= 0 \/ ShiftRight(x.mant, -x.exp).exact

\* The natural an integer double below 2^31 stands for.
NaturalOf(x) == DigitsNat(IntegerDigits(x))

(***************************************************************************)
(* Exact rationals num / (small * 2^shift), to state what the rounded      *)
(* results are compared with.                                              *)
(***************************************************************************)
\* the exact value of the double x
ExactValue(x) ==
    [num |-> IF x.exp > 0 THEN ShiftLeft(x.mant, x.exp) ELSE x.mant,
     small |-> 1,
     shift |-> IF x.exp < 0 THEN -x.exp ELSE 0]

\* the exact value of the decimal digits / scale
WrittenValue(input) == [num |-> input.digits, small |-> input.scale, shift |-> 0]

\* 100 * q
Hundredfold(q) == [q EXCEPT !.num = MulAdd(q.num, 100, 0)]

\* b times the denominator of q
TimesDen(b, q) == ShiftLeft(MulAdd(b, q.small, 0), q.shift)

\* the natural c is at most 1/2 away from q
WithinHalf(c, q) ==
    /\ Leq(TimesDen(MulAdd(c, 2, 0), q),
           Add(MulAdd(q.num, 2, 0), TimesDen(NatDigits(1), q)))
    /\ Leq(MulAdd(q.num, 2, 0), TimesDen(MulAdd(c, 2, 1), q))

\* c = floor(q + 1/2): the nearest integer, a half going up
NearestHalfUp(c, q) ==
    /\ Leq(TimesDen(MulAdd(c, 2, 0), q),
           Add(MulAdd(q.num, 2, 0), TimesDen(NatDigits(1), q)))
    /\ ~Leq(TimesDen(MulAdd(c, 2, 1), q), MulAdd(q.num, 2, 0))

(***************************************************************************)
(* Amount codec (transport/index.ts).                                      *)
(***************************************************************************)
\* formatAmountInCents keeping the whole cents only.
formatAmountInCents_Floor(amount) ==
    RoundToDouble(IntegerDigits(TimesSmall(amount, 100)), 1, 0)

\* Math.round(amount * 100)
formatAmountInCents(amount) == MathRound(TimesSmall(amount, 100))

\* formatCentsToAmount dividing by ten.
formatCentsToAmount_Tenth(cents) == DividedBySmall(cents, 10)

\* cents / 100
formatCentsToAmount(cents) == DividedBySmall(cents, 100)

(***************************************************************************)
(* The remote service.                                                     *)
(***************************************************************************)
\* The unconstrained service: any response to any request.
AnyServer == [kind |-> "any"]

\* A service that holds the objects 1..size and answers since_token = Tok(n)
\* with the objects after n, at most pageCap of them.
CursorServers ==
    [ kind : {"cursor"}, size : 0..MaxColl, pageCap : {7, PAGE_SIZE} ]

\* A service that ignores since_token and always answers with its first page.
RepeatServer == [kind |-> "repeat"]

\* Position named by a since_token (0: from the start).
PositionOf(token, size) ==
    IF \E n \in 1..size : Tok(n) = token
    THEN CHOOSE n \in 1..size : Tok(n) = token
    ELSE 0

Min(a, b) == IF a < b THEN a ELSE b

\* The page the cursor-respecting service returns for the request options.
CursorPage(srv, options) ==
    LET from == IF "qs" \in DOMAIN options
                THEN PositionOf(Get(options.qs, "since_token"), srv.size)
                ELSE 0
        len == Min(srv.pageCap, srv.size - from)
    IN  [ i \in 1..len |-> Item(from + i, Tok(from + i)) ]

\* Responses the service can give to the n-th request of the run.  The
\* unconstrained service stops sending pages of length PAGE_SIZE after
\* MaxRequests - 1 of them; no service answers beyond MaxRequests requests.
ServerResponses(srv, n, options, propertyName) ==
    IF n > MaxRequests THEN {}
    ELSE IF propertyName = Undefined THEN ResourceResponses
    ELSE CASE srv.kind = "cursor" ->
                { ResponseWith(propertyName, ArrayVal(CursorPage(srv, options))) }
           [] srv.kind = "repeat" ->
                { ResponseWith(propertyName, ArrayVal(Page(0, PAGE_SIZE, Tok(PAGE_SIZE)))) }
           [] OTHER ->
                { r \in ListResponses :
                    n < MaxRequests \/ ~LengthIs(Prop(r, propertyName), PAGE_SIZE) }

\* Failures the service or the network can produce for the n-th request.
ServerFailures(srv, n) ==
    IF srv.kind = "any" /\ n <= MaxRequests
    THEN ResponseErrors \cup NetworkErrors ELSE {}

(***************************************************************************)
(* State machine.                                                          *)
(***************************************************************************)
\* No utility function is under evaluation.
FxIdle == [op |-> "none"]

\* A freshly loaded process: latch down, nothing printed, no invocation.
NodeIdle ==
    /\ licensingNoticeDisplayed = FALSE
    /\ consoleLog = << >>
    /\ runs = << >>

Pending == [status |-> "pending"]
Returned(v) == [status |-> "returned", value |-> v]
Thrown(e) == [status |-> "thrown", error |-> e]

\* No transport call has been made and none is asked for.
NoCall == [fn |-> "none"]

TransportIdle ==
    /\ pc = "idle"
    /\ call = NoCall
    /\ credentials = EmptyObject
    /\ returnData = << >>
    /\ responseData = UndefinedVal
    /\ sinceToken = Undefined
    /\ apiArgs = EmptyObject
    /\ inflight = {}
    /\ apiCalls = << >>
    /\ httpLog = << >>
    /\ outcomes = << >>
    /\ result = Pending
    /\ server = AnyServer

InitWith(srv) ==
    /\ pc = "idle"
    /\ call \in ApiRequestCalls \cup AllItemsCalls
    /\ credentials \in Credentials
    /\ returnData = << >>
    /\ responseData = UndefinedVal
    /\ sinceToken = Undefined
    /\ apiArgs = EmptyObject
    /\ inflight = {}
    /\ apiCalls = << >>
    /\ httpLog = << >>
    /\ outcomes = << >>
    /\ result = Pending
    /\ server = srv
    /\ fx = FxIdle
    /\ NodeIdle

Init == InitWith(AnyServer)

\* An operation module invokes spreedlyApiRequest.
CallApiRequest ==
    /\ pc = "idle"
    /\ call.fn = "spreedlyApiRequest"
    /\ apiArgs' = [method |-> call.method, endpoint |-> call.endpoint,
                   body |-> call.body, query |-> call.query]
    /\ apiCalls' = Append(apiCalls, apiArgs')
    /\ pc' = "api"
    /\ UNCHANGED << call, credentials, returnData, responseData, sinceToken,
                    inflight, httpLog, outcomes, result, server, outerVars >>

\* An operation module invokes spreedlyApiRequestAllItems: the locals.
CallAllItems ==
    /\ pc = "idle"
    /\ call.fn = "spreedlyApiRequestAllItems"
    /\ returnData' = << >>
    /\ responseData' = UndefinedVal
    /\ sinceToken' = Undefined
    /\ pc' = "loop"
    /\ UNCHANGED << call, credentials, apiArgs, inflight, apiCalls, httpLog,
                    outcomes, result, server, outerVars >>

\* LoopRequest writing since_token into the caller's query instead of a copy.
LoopRequest_InPlace ==
    /\ pc = "loop"
    /\ call' = [call EXCEPT !.query = PaginatedQuery(call.query, sinceToken)]
    /\ apiArgs' = [method |-> call.method, endpoint |-> call.endpoint,
                   body |-> call.body, query |-> call'.query]
    /\ apiCalls' = Append(apiCalls, apiArgs')
    /\ pc' = "api"
    /\ UNCHANGED << credentials, returnData, responseData, sinceToken,
                    inflight, httpLog, outcomes, result, server, outerVars >>

\* Top of the do body: build paginatedQuery and invoke spreedlyApiRequest.
LoopRequest ==
    /\ pc = "loop"
    /\ apiArgs' = [method |-> call.method, endpoint |-> call.endpoint,
                   body |-> call.body,
                   query |-> PaginatedQuery(call.query, sinceToken)]
    /\ apiCalls' = Append(apiCalls, apiArgs')
    /\ pc' = "api"
    /\ UNCHANGED << call, credentials, returnData, responseData, sinceToken,
                    inflight, httpLog, outcomes, result, server, outerVars >>

\* HttpSend without the await: the loop goes on with the response it has.
HttpSend_NoAwait ==
    /\ pc = "api"
    /\ httpLog' = Append(httpLog,
                         BuildOptions(credentials, apiArgs.method, apiArgs.endpoint,
                                      apiArgs.body, apiArgs.query))
    /\ inflight' = inflight \cup {Len(httpLog')}
    /\ pc' = IF call.fn = "spreedlyApiRequestAllItems" /\ responseData # UndefinedVal
             THEN "page" ELSE "await"
    /\ UNCHANGED << call, credentials, returnData, responseData, sinceToken,
                    apiArgs, apiCalls, outcomes, result, server, outerVars >>

\* spreedlyApiRequest builds the options and awaits helpers.httpRequest.
HttpSend ==
    /\ pc = "api"
    /\ httpLog' = Append(httpLog,
                         BuildOptions(credentials, apiArgs.method, apiArgs.endpoint,
                                      apiArgs.body, apiArgs.query))
    /\ inflight' = inflight \cup {Len(httpLog')}
    /\ pc' = "await"
    /\ UNCHANGED << call, credentials, returnData, responseData, sinceToken,
                    apiArgs, apiCalls, outcomes, result, server, outerVars >>

\* The transport resolves: spreedlyApiRequest returns the response, to the
\* operation module or to the collector's loop.
HttpSucceeds ==
    /\ pc = "await"
    /\ \E n \in inflight :
         \E resp \in ServerResponses(server, n, httpLog[n], call.propertyName) :
           /\ inflight' = inflight \ {n}
           /\ outcomes' = Append(outcomes, [ok |-> TRUE, response |-> resp])
           /\ IF call.fn = "spreedlyApiRequest"
              THEN /\ result' = Returned(resp)
                   /\ pc' = "done"
                   /\ UNCHANGED responseData
              ELSE /\ responseData' = resp
                   /\ pc' = "page"
                   /\ UNCHANGED result
    /\ UNCHANGED << call, credentials, returnData, sinceToken, apiArgs,
                    apiCalls, httpLog, server, outerVars >>

\* HttpFails with the collector catching the error and returning what it has.
HttpFails_PartialResult ==
    /\ pc = "await"
    /\ \E n \in inflight :
         \E error \in ServerFailures(server, n) :
           /\ inflight' = inflight \ {n}
           /\ outcomes' = Append(outcomes, [ok |-> FALSE, error |-> error])
           /\ result' = IF call.fn = "spreedlyApiRequestAllItems"
                        THEN Returned(returnData)
                        ELSE Thrown(CatchError(error))
           /\ pc' = IF call.fn = "spreedlyApiRequestAllItems" THEN "done" ELSE "failed"
    /\ UNCHANGED << call, credentials, returnData, responseData, sinceToken,
                    apiArgs, apiCalls, httpLog, server, outerVars >>

\* HttpFails with one more attempt after a failure.
HttpFails_Retry ==
    /\ pc = "await"
    /\ \E n \in inflight :
         \E error \in ServerFailures(server, n) :
           /\ outcomes' = Append(outcomes, [ok |-> FALSE, error |-> error])
           /\ httpLog' = Append(httpLog, httpLog[n])
           /\ inflight' = (inflight \ {n}) \cup {Len(httpLog')}
           /\ pc' = "await"
    /\ UNCHANGED << call, credentials, returnData, responseData, sinceToken,
                    apiArgs, apiCalls, result, server, outerVars >>

\* The transport rejects: the catch block throws, and neither the collector
\* nor spreedlyApiRequest handles it.
HttpFails ==
    /\ pc = "await"
    /\ \E n \in inflight :
         \E error \in ServerFailures(server, n) :
           /\ inflight' = inflight \ {n}
           /\ outcomes' = Append(outcomes, [ok |-> FALSE, error |-> error])
           /\ result' = Thrown(CatchError(error))
           /\ pc' = "failed"
    /\ UNCHANGED << call, credentials, returnData, responseData, sinceToken,
                    apiArgs, apiCalls, httpLog, server, outerVars >>

\* Rest of the do body, the while test and the return.
ProcessPage ==
    /\ pc = "page"
    /\ returnData' = Accumulate(returnData, Prop(responseData, call.propertyName))
    /\ sinceToken' = AdvanceCursor(sinceToken, Prop(responseData, call.propertyName))
    /\ IF HasMorePages(responseData, call.propertyName)
       THEN /\ pc' = "loop"
            /\ UNCHANGED result
       ELSE /\ pc' = "done"
            /\ result' = Returned(returnData')
    /\ UNCHANGED << call, credentials, responseData, apiArgs, inflight,
                    apiCalls, httpLog, outcomes, server, outerVars >>

Next ==
    \/ CallApiRequest
    \/ CallAllItems
    \/ LoopRequest
    \/ HttpSend
    \/ HttpSucceeds
    \/ HttpFails
    \/ ProcessPage

Spec == Init /\ [][Next]_vars

(***************************************************************************)
(* The collector against a service that honours since_token, or one that   *)
(* ignores it.  The event loop resumes every settled await and the service *)
(* answers every request it is sent: weak fairness of the whole step.      *)
(***************************************************************************)
LiveInit ==
    /\ \E srv \in CursorServers \cup {RepeatServer} : InitWith(srv)
    /\ call.fn = "spreedlyApiRequestAllItems"

LiveNext ==
    \/ CallAllItems
    \/ LoopRequest
    \/ HttpSend
    \/ HttpSucceeds
    \/ ProcessPage

LiveSpec == LiveInit /\ [][LiveNext]_vars /\ WF_vars(LiveNext)

(***************************************************************************)
(* Properties.                                                             *)
(***************************************************************************)
IsAllItems == call.fn = "spreedlyApiRequestAllItems"

\* The value the j-th settled request delivered at propertyName.
PageAt(j) == Prop(outcomes[j].response, call.propertyName)

\* The j-th settled request delivered an array.
ArrayAt(j) == outcomes[j].ok /\ PageAt(j).type = "array"

\* The item arrays of the first k settled requests, one after the other.
RECURSIVE ConcatPages(_)
ConcatPages(k) ==
    IF k = 0 THEN << >>
    ELSE ConcatPages(k - 1) \o (IF ArrayAt(k) THEN PageAt(k).items ELSE << >>)

\* C1: when spreedlyApiRequestAllItems returns, its result is the
\* concatenation, in call order, of the item arrays of every page fetched:
\* nothing dropped, reordered or de-duplicated.
C1_ResultIsConcatenation ==
    (IsAllItems /\ result.status = "returned")
        => result.value = ConcatPages(Len(outcomes))

\* C1 witness: a returned result of two full pages holding the same items
\* and a shorter page, every item of the first page present twice.
C1_Witness ==
    /\ IsAllItems /\ result.status = "returned"
    /\ Len(outcomes) = 3
    /\ Len(result.value) = 2 * PAGE_SIZE + 5
    /\ \A i \in 1..(PAGE_SIZE - 1) : result.value[i] = result.value[PAGE_SIZE + i]

\* The j-th settled request delivered an array of fewer than PAGE_SIZE items,
\* and every request before it an array of exactly PAGE_SIZE items.
FirstShortPageAt(j) ==
    /\ ArrayAt(j) /\ Len(PageAt(j).items) < PAGE_SIZE
    /\ \A i \in 1..(j - 1) : ArrayAt(i) /\ Len(PageAt(i).items) = PAGE_SIZE

\* C2: after k pages of exactly 20 items and a (k+1)-th page of fewer than 20,
\* exactly k+1 requests have been issued and no further one ever is; the
\* result then holds 20*k items plus those of the last page.
C2_StopsAtShortPage ==
    IsAllItems =>
        \A j \in 1..Len(outcomes) :
            FirstShortPageAt(j) =>
                /\ Len(apiCalls) = j
                /\ Len(httpLog) = j
                /\ pc \in {"page", "done"}
                /\ pc = "done" =>
                     /\ result.status = "returned"
                     /\ Len(result.value) = PAGE_SIZE * (j - 1) + Len(PageAt(j).items)

\* C2 witness: pages of sizes [20, 20, 7] gave 3 requests and 47 items.
C2_Witness ==
    /\ IsAllItems /\ pc = "done"
    /\ Len(outcomes) = 3 /\ FirstShortPageAt(3)
    /\ Len(PageAt(3).items) = 7
    /\ Len(httpLog) = 3
    /\ Len(result.value) = 47

\* The since_token the n-th request carries (undefined: none).
SinceTokenOf(n) ==
    IF "qs" \in DOMAIN httpLog[n] THEN Get(httpLog[n].qs, "since_token") ELSE Undefined

\* The query string the n-th request carries (the empty mapping: none).
QueryOf(n) == IF "qs" \in DOMAIN httpLog[n] THEN httpLog[n].qs ELSE EmptyObject

\* The token field of the last item of the j-th page (undefined: missing).
LastTokenAt(j) == Get(PageAt(j).items[Len(PageAt(j).items)], "token")

\* The j-th settled request delivered an array with at least one item.
NonEmptyArrayAt(j) == ArrayAt(j) /\ Len(PageAt(j).items) > 0

\* The cursor after the first k pages: the last token of the latest page
\* among them that is a non-empty array, undefined when there is none.
RECURSIVE CursorAfter(_)
CursorAfter(k) ==
    IF k = 0 THEN Undefined
    ELSE IF NonEmptyArrayAt(k) THEN LastTokenAt(k)
    ELSE CursorAfter(k - 1)

\* The caller's query with since_token set to token.
WithSinceToken(query, token) ==
    [ k \in DOMAIN query \cup {"since_token"} |->
        IF k = "since_token" THEN token ELSE query[k] ]

\* C3 as stated: the first request carries the caller's query as it is, and
\* every later request carries since_token equal to the token field of the
\* last item of the page before it, whatever that token is (empty or missing
\* included).
C3_Original ==
    IsAllItems =>
        \A n \in 1..Len(httpLog) :
            /\ n = 1 => QueryOf(n) = call.query
            /\ (n > 1 /\ NonEmptyArrayAt(n - 1)) => SinceTokenOf(n) = LastTokenAt(n - 1)

\* C3 amended: the first request carries the caller's query as it is; a later
\* request carries since_token equal to the last token of the latest non-empty
\* array page when that token is a non-empty string, and the caller's query as
\* it is when that token is empty or missing; the cursor is always the last
\* token of the latest non-empty array page, so an empty page never changes it.
C3_CursorFollowsLastToken ==
    IsAllItems =>
        /\ \A n \in 1..Len(httpLog) :
             LET cursor == CursorAfter(n - 1) IN
             QueryOf(n) = IF cursor \notin {Undefined, ""}
                          THEN WithSinceToken(call.query, cursor)
                          ELSE call.query
        /\ sinceToken = CursorAfter(IF pc = "page" THEN Len(outcomes) - 1
                                    ELSE Len(outcomes))

\* C3 witness: the second request carries the last token of the first page;
\* the second page ends with an item without token and the third request
\* carries no since_token.
C3_Witness ==
    /\ IsAllItems /\ call.query = EmptyObject
    /\ Len(httpLog) = 3
    /\ NonEmptyArrayAt(1) /\ LastTokenAt(1) = Tok(PAGE_SIZE)
    /\ SinceTokenOf(2) = Tok(PAGE_SIZE)
    /\ NonEmptyArrayAt(2) /\ LastTokenAt(2) = Undefined
    /\ "qs" \notin DOMAIN httpLog[3]

\* C5: once a page request fails, the error is what the caller gets: no
\* request follows the failing one and the accumulated items are not returned.
C5_FailurePropagates ==
    \A j \in 1..Len(outcomes) :
        ~outcomes[j].ok =>
            /\ j = Len(outcomes)
            /\ Len(httpLog) = j
            /\ Len(apiCalls) = j
            /\ pc = "failed"
            /\ result = Thrown(CatchError(outcomes[j].error))

\* C5 witness: the third request of a collection fails after two pages of
\* items had been accumulated.
C5_Witness ==
    /\ IsAllItems /\ pc = "failed"
    /\ Len(outcomes) = 3 /\ ~outcomes[3].ok
    /\ Len(returnData) = 2 * PAGE_SIZE
    /\ result.status = "thrown"

\* C6 as stated: a page whose value at propertyName is absent or not an array
\* adds nothing, raises nothing, leaves the cursor alone and ends the loop.
C6_NonArrayPageStops ==
    [][ (IsAllItems /\ pc = "page"
            /\ ~IsArray(Prop(responseData, call.propertyName)))
        => /\ returnData' = returnData
           /\ sinceToken' = sinceToken
           /\ pc' = "done"
           /\ result' = Returned(returnData) ]_vars

\* C7: at most one request is in flight, and a request is issued only when
\* every earlier one has settled.
C7_OneInFlight ==
    /\ Cardinality(inflight) <= 1
    /\ Len(outcomes) + Cardinality(inflight) = Len(httpLog)
    /\ pc \in {"loop", "api", "page"} => inflight = {}
    /\ inflight # {} => inflight = {Len(httpLog)}

\* C7 witness: the second page request is in flight, the first has settled.
C7_Witness ==
    /\ IsAllItems /\ Len(httpLog) = 2 /\ inflight = {2} /\ Len(outcomes) = 1

\* C4: against a service that holds a finite collection and answers
\* since_token = t with at most 20 of the objects after t, the collector
\* returns; against a service that answers every request with the same 20
\* items it never returns and goes on issuing requests, as many as the
\* service answers: it has no request limit of its own.
C4_TerminationRestsOnServer ==
    /\ (server.kind = "cursor") ~> (result.status = "returned")
    /\ [](server.kind = "repeat" => result.status = "pending")
    /\ (server.kind = "repeat") ~> (Len(httpLog) > MaxRequests)

\* C4 witness: a collection of more than two pages was returned whole after
\* three requests.
C4_Witness ==
    /\ server.kind = "cursor" /\ server.pageCap = PAGE_SIZE
    /\ server.size > 2 * PAGE_SIZE
    /\ call.query = EmptyObject
    /\ result.status = "returned"
    /\ Len(result.value) = server.size
    /\ Len(httpLog) = 3

\* C8: every invocation of spreedlyApiRequest that got past building its
\* options has made exactly one call of helpers.httpRequest, however that call
\* settled, and a failed call is the last call.
C8_OneHttpCallPerInvocation ==
    /\ Len(httpLog) = Len(apiCalls) - (IF pc = "api" THEN 1 ELSE 0)
    /\ \A j \in 1..Len(outcomes) : ~outcomes[j].ok => Len(httpLog) = j

\* C8 witness: a single invocation whose only call failed without a response.
C8_Witness ==
    /\ call.fn = "spreedlyApiRequest" /\ pc = "failed"
    /\ Len(apiCalls) = 1 /\ Len(httpLog) = 1
    /\ "response" \notin DOMAIN outcomes[1].error

\* C9: a request has a body field exactly when the body argument has a key,
\* and a query-string field exactly when the query argument has a key; a field
\* that is there is the argument.
C9_BodyAndQueryOnlyWhenNonEmpty ==
    \A n \in 1..Len(httpLog) :
        /\ ("body" \in DOMAIN httpLog[n]) <=> (apiCalls[n].body # EmptyObject)
        /\ ("qs" \in DOMAIN httpLog[n]) <=> (apiCalls[n].query # EmptyObject)
        /\ "body" \in DOMAIN httpLog[n] => httpLog[n].body = apiCalls[n].body
        /\ "qs" \in DOMAIN httpLog[n] => httpLog[n].qs = apiCalls[n].query

\* C9 witness: a request sent for an empty body and a non-empty query has no
\* body field and has a query string.
C9_Witness ==
    /\ Len(httpLog) >= 1
    /\ apiCalls[1].body = EmptyObject /\ apiCalls[1].query # EmptyObject
    /\ "body" \notin DOMAIN httpLog[1]
    /\ "qs" \in DOMAIN httpLog[1]

\* errors[0].message of the response body of a transport error, if there
ErrorsMessageOf(error) ==
    IF /\ "body" \in DOMAIN error.response
       /\ "errors" \in DOMAIN error.response.body
       /\ error.response.body.errors # << >>
       /\ "message" \in DOMAIN Head(error.response.body.errors)
    THEN Head(error.response.body.errors).message
    ELSE Undefined

\* message of the response body of a transport error, if there
BodyMessageOf(error) ==
    IF "body" \in DOMAIN error.response /\ "message" \in DOMAIN error.response.body
    THEN error.response.body.message
    ELSE Undefined

\* The first of the three sources that is not among the values in skipped.
MessageSource(error, skipped) ==
    IF ErrorsMessageOf(error) \notin skipped THEN ErrorsMessageOf(error)
    ELSE IF BodyMessageOf(error) \notin skipped THEN BodyMessageOf(error)
    ELSE error.message

\* The error spreedlyApiRequest raised carries the text chosen by skipping the
\* sources whose value is in skipped.
RaisedMessageIs(skipped) ==
    \A j \in 1..Len(outcomes) :
        (~outcomes[j].ok /\ "response" \in DOMAIN outcomes[j].error) =>
            /\ result.status = "thrown"
            /\ result.error.name = "NodeApiError"
            /\ result.error.message =
                 "Spreedly API Error: " \o MessageSource(outcomes[j].error, skipped)

\* C10 as stated: the message text comes from errors[0].message, else from
\* the body's message, else from the transport error's message, a lower source
\* being used only when every higher one is absent.
C10_Original == RaisedMessageIs({Undefined})

\* C10 amended: the same priority order, a lower source being used when every
\* higher one is absent or is the empty string.
C10_MessagePriority == RaisedMessageIs({Undefined, ""})

\* C10 witness: a failed call whose body has no errors and a message raised an
\* error with that message.
C10_Witness ==
    /\ Len(outcomes) >= 1 /\ ~outcomes[Len(outcomes)].ok
    /\ "response" \in DOMAIN outcomes[Len(outcomes)].error
    /\ ErrorsMessageOf(outcomes[Len(outcomes)].error) = Undefined
    /\ BodyMessageOf(outcomes[Len(outcomes)].error) = "Bad request"
    /\ result.status = "thrown"
    /\ result.error.message = "Spreedly API Error: Bad request"

\* The transport errors that came with a response and a non-empty
\* errors[0].message, and the ones that came without a response.
FailedWithMessageAt(j) ==
    /\ ~outcomes[j].ok
    /\ "response" \in DOMAIN outcomes[j].error
    /\ ErrorsMessageOf(outcomes[j].error) \notin {Undefined, ""}

FailedWithoutResponseAt(j) ==
    ~outcomes[j].ok /\ "response" \notin DOMAIN outcomes[j].error

\* C11 as stated: for a failed call with body { errors: [{ message: m }] } and
\* HTTP status s the raised error has message m itself and status the number s.
C11_Original ==
    \A j \in 1..Len(outcomes) :
        (FailedWithMessageAt(j) /\ "statusCode" \in DOMAIN outcomes[j].error.response) =>
            /\ result.status = "thrown"
            /\ result.error.message = ErrorsMessageOf(outcomes[j].error)
            /\ result.error.httpCode = NumberOf(outcomes[j].error.response.statusCode)

\* C11 amended: the raised error has the message "Spreedly API Error: "
\* followed by m, and its httpCode is the status written as a decimal string.
C11_PrefixedMessageAndStringStatus ==
    \A j \in 1..Len(outcomes) :
        (FailedWithMessageAt(j) /\ "statusCode" \in DOMAIN outcomes[j].error.response) =>
            /\ result.status = "thrown"
            /\ result.error.message =
                 "Spreedly API Error: " \o ErrorsMessageOf(outcomes[j].error)
            /\ result.error.httpCode =
                 StringOf(ToString(outcomes[j].error.response.statusCode))

\* C11 witness: { errors: [{ message: "Invalid token" }] } with HTTP 422.
C11_Witness ==
    /\ Len(outcomes) = 1 /\ FailedWithMessageAt(1)
    /\ ErrorsMessageOf(outcomes[1].error) = "Invalid token"
    /\ Get(outcomes[1].error.response, "statusCode") = 422
    /\ result.status = "thrown"
    /\ result.error.message = "Spreedly API Error: Invalid token"
    /\ result.error.httpCode = StringOf("422")

\* C12: a transport failure without a response is rethrown as it is: the same
\* error, not wrapped, message unchanged, no status added.
C12_NetworkErrorUnchanged ==
    \A j \in 1..Len(outcomes) :
        FailedWithoutResponseAt(j) =>
            /\ result.status = "thrown"
            /\ result.error = outcomes[j].error
            /\ DOMAIN result.error = DOMAIN outcomes[j].error

\* C12 witness: a page request of a collection failed without a response.
C12_Witness ==
    /\ IsAllItems /\ Len(outcomes) = 2 /\ FailedWithoutResponseAt(2)
    /\ result = Thrown(outcomes[2].error)

\* C13: every request goes to the fixed origin followed by the endpoint, with
\* JSON content headers and Basic credentials environmentKey / accessSecret.
C13_FixedOriginHeadersAndAuth ==
    \A n \in 1..Len(httpLog) :
        /\ httpLog[n].url = "https://core.spreedly.com/v1" \o apiCalls[n].endpoint
        /\ httpLog[n].method = apiCalls[n].method
        /\ httpLog[n].headers.ContentType = "application/json"
        /\ httpLog[n].headers.Accept = "application/json"
        /\ httpLog[n].auth.username = credentials.environmentKey
        /\ httpLog[n].auth.password = credentials.accessSecret

\* C13 witness: a DELETE on a token path sent with the second credential.
C13_Witness ==
    /\ Len(httpLog) = 1
    /\ httpLog[1].method = "DELETE"
    /\ httpLog[1].url = "https://core.spreedly.com/v1/certificates/tok1.json"
    /\ httpLog[1].auth = [username |-> "env2", password |-> "secret2"]

\* The same credential with the sandbox flag the other way.
OtherSandbox(cred) == [cred EXCEPT !.sandbox = ~cred.sandbox]

\* The request the n-th invocation sends when run with credential cred.
RequestWith(cred, n) ==
    BuildOptions(cred, apiCalls[n].method, apiCalls[n].endpoint,
                 apiCalls[n].body, apiCalls[n].query)

\* C14 as stated: two executions that differ only in the credential's sandbox
\* flag send their requests to different endpoints.
C14_SandboxChangesEndpoint ==
    \A n \in 1..Len(httpLog) :
        /\ httpLog[n] = RequestWith(credentials, n)
        /\ httpLog[n].url # RequestWith(OtherSandbox(credentials), n).url


(***************************************************************************)
(* The amount codec on its own: an amount written in decimal is read as a  *)
(* double, formatted to cents and formatted back.                          *)
(***************************************************************************)
MaxCents == 1500
MaxThousandths == 1500

\* the natural written by the decimal digits high followed by the eight
\* decimal digits low
DecimalDigits(high, low) ==
    MulAdd(MulAdd(NatDigits(high), 10000, low \div 10000), 10000, low % 10000)

Decimal(digits, scale) == [digits |-> digits, scale |-> scale]

\* 10.00, 10.50, 10.999 and 0.01 of the unit tests; half cents; amounts
\* around 2^51 cents
TenPointNineNineNine == Decimal(NatDigits(10999), 1000)
TenPointFive == Decimal(NatDigits(1050), 100)
OnePointZeroZeroFive == Decimal(NatDigits(1005), 1000)
JustBelow2To51Cents ==
    Decimal(DecimalDigits(22517998, 13685247), 100)
Above2To51Cents ==
    Decimal(DecimalDigits(44009285, 98191145), 100)
LargeHalfCent ==
    Decimal(DecimalDigits(4999999, 99999995), 1000)

NamedAmounts ==
    { Decimal(NatDigits(1000), 100), TenPointFive, TenPointNineNineNine,
      OnePointZeroZeroFive, JustBelow2To51Cents, Above2To51Cents,
      LargeHalfCent,
      Decimal(DecimalDigits(1234567, 89012345), 100) }

AmountInputs ==
    {Decimal(NatDigits(n), 100) : n \in 1..MaxCents}
        \cup {Decimal(NatDigits(n), 1000) : n \in 1..MaxThousandths}
        \cup NamedAmounts

AmountInit ==
    /\ TransportIdle
    /\ NodeIdle
    /\ \E input \in AmountInputs :
          fx = [op |-> "amount", input |-> input,
                amount |-> Literal(input.digits, input.scale)]

FormatAmountInCents ==
    /\ fx.op = "amount"
    /\ fx' = [op |-> "formatAmountInCents", input |-> fx.input,
              amount |-> fx.amount, cents |-> formatAmountInCents(fx.amount)]
    /\ UNCHANGED << transportVars, nodeVars >>

FormatCentsToAmount ==
    /\ fx.op = "formatAmountInCents"
    /\ fx' = [op |-> "formatCentsToAmount", input |-> fx.input,
              amount |-> fx.amount, cents |-> fx.cents,
              back |-> formatCentsToAmount(fx.cents)]
    /\ UNCHANGED << transportVars, nodeVars >>

AmountNext ==
    \/ FormatAmountInCents
    \/ FormatCentsToAmount

AmountSpec == AmountInit /\ [][AmountNext]_vars

InCents == fx.op \in {"formatAmountInCents", "formatCentsToAmount"}
WentBack == fx.op = "formatCentsToAmount"

\* at most two fractional digits, and at least 0.01
TwoDigitAmount == fx.input.scale = 100 /\ fx.input.digits # << >>

\* C15 as stated: for every amount a >= 0.01 with at most two fractional
\* digits, formatCentsToAmount(formatAmountInCents(a)) equals a.
C15_Original ==
    WentBack /\ TwoDigitAmount => fx.back = fx.amount

\* C15 amended: the round trip gives back a for every such amount below
\* 2^51 cents; from there on the double product a * 100 can land on a half
\* and is rounded to the next cent.
C15_RoundTripBelow2To51Cents ==
    WentBack /\ TwoDigitAmount /\ BitLength(fx.input.digits) <= 51
        => /\ fx.cents = Literal(fx.input.digits, 1)
           /\ fx.back = fx.amount

\* C15 witness: 10.50 went to 1050 cents and back to 10.50, and so did the
\* largest amount below 2^51 cents.
C15_Witness ==
    /\ WentBack
    /\ fx.input \in {TenPointFive, JustBelow2To51Cents}
    /\ fx.cents = Literal(fx.input.digits, 1)
    /\ fx.back = fx.amount

\* C16 as stated: formatAmountInCents(a) is an integer, the one nearest to
\* 100 times a (a half may go either way).
C16_Original ==
    InCents =>
        /\ IsIntegerNumber(fx.cents)
        /\ WithinHalf(IntegerDigits(fx.cents), Hundredfold(ExactValue(fx.amount)))

\* written with at most three fractional digits, below 2^49 thousandths
WrittenInRange == BitLength(fx.input.digits) <= 49

\* C16 amended: formatAmountInCents(a) is an integer, the one nearest to the
\* double product a * 100 with a half going up; for an amount written with
\* at most three fractional digits it is within half a cent of 100 times the
\* written amount, so further digits are rounded and not truncated (10.999
\* gives 1100, 10.50 gives 1050, 0.01 gives 1), an amount on a half cent
\* going either way.
C16_NearestToTheProduct ==
    InCents =>
        /\ IsIntegerNumber(fx.cents)
        /\ NearestHalfUp(IntegerDigits(fx.cents),
                         ExactValue(TimesSmall(fx.amount, 100)))
        /\ WrittenInRange =>
              WithinHalf(IntegerDigits(fx.cents), Hundredfold(WrittenValue(fx.input)))
        /\ fx.input = TenPointNineNineNine => fx.cents = Literal(NatDigits(1100), 1)
        /\ fx.input = TenPointFive => fx.cents = Literal(NatDigits(1050), 1)
        /\ fx.input = Decimal(NatDigits(1), 100) => fx.cents = Literal(NatDigits(1), 1)

\* C16 witness: 10.999 gave 1100, and the half cent 1.005 gave 100.
C16_Witness ==
    /\ InCents
    /\ \/ fx.input = TenPointNineNineNine /\ NaturalOf(fx.cents) = 1100
       \/ fx.input = OnePointZeroZeroFive /\ NaturalOf(fx.cents) = 100


(***************************************************************************)
(* Key-name conversion (utils/index.ts).  A string is the sequence of its  *)
(* characters.                                                             *)
(***************************************************************************)
Lowercase ==
    << "a", "b", "c", "d", "e", "f", "g", "h", "i", "j", "k", "l", "m", "n",
       "o", "p", "q", "r", "s", "t", "u", "v", "w", "x", "y", "z" >>
Uppercase ==
    << "A", "B", "C", "D", "E", "F", "G", "H", "I", "J", "K", "L", "M", "N",
       "O", "P", "Q", "R", "S", "T", "U", "V", "W", "X", "Y", "Z" >>

\* [a-z] and [A-Z]
IsLower(c) == \E i \in DOMAIN Lowercase : Lowercase[i] = c
IsUpper(c) == \E i \in DOMAIN Uppercase : Uppercase[i] = c

toUpperCase(c) ==
    IF IsLower(c) THEN Uppercase[CHOOSE i \in DOMAIN Lowercase : Lowercase[i] = c]
    ELSE c
toLowerCase(c) ==
    IF IsUpper(c) THEN Lowercase[CHOOSE i \in DOMAIN Uppercase : Uppercase[i] = c]
    ELSE c

\* snakeToCamel leaving the underscore in place.
RECURSIVE snakeToCamel_KeepUnderscoreFrom(_, _)
snakeToCamel_KeepUnderscoreFrom(str, i) ==
    IF i > Len(str) THEN << >>
    ELSE IF str[i] = "_" /\ i < Len(str) /\ IsLower(str[i + 1])
    THEN << "_", toUpperCase(str[i + 1]) >> \o snakeToCamel_KeepUnderscoreFrom(str, i + 2)
    ELSE << str[i] >> \o snakeToCamel_KeepUnderscoreFrom(str, i + 1)

snakeToCamel_KeepUnderscore(str) == snakeToCamel_KeepUnderscoreFrom(str, 1)

\* str.replace(/_([a-z])/g, (_, letter) => letter.toUpperCase()), from the
\* i-th character on: matches are found left to right and do not overlap
RECURSIVE snakeToCamelFrom(_, _)
snakeToCamelFrom(str, i) ==
    IF i > Len(str) THEN << >>
    ELSE IF str[i] = "_" /\ i < Len(str) /\ IsLower(str[i + 1])
    THEN << toUpperCase(str[i + 1]) >> \o snakeToCamelFrom(str, i + 2)
    ELSE << str[i] >> \o snakeToCamelFrom(str, i + 1)

snakeToCamel(str) == snakeToCamelFrom(str, 1)

\* camelToSnake lowering the letter without an underscore.
RECURSIVE camelToSnake_NoUnderscore(_)
camelToSnake_NoUnderscore(str) ==
    IF str = << >> THEN << >>
    ELSE << toLowerCase(Head(str)) >> \o camelToSnake_NoUnderscore(Tail(str))

\* str.replace(/[A-Z]/g, (letter) => `_${letter.toLowerCase()}`)
RECURSIVE camelToSnake(_)
camelToSnake(str) ==
    IF str = << >> THEN << >>
    ELSE (IF IsUpper(Head(str)) THEN << "_", toLowerCase(Head(str)) >>
          ELSE << Head(str) >>) \o camelToSnake(Tail(str))

(***************************************************************************)
(* The two conversions applied to a name, one after the other.             *)
(***************************************************************************)
MaxNameLen == 5
MaxConversions == 2

NameAlphabet == {"a", "t", "T", "_", "1"}

payment_method_token == << "p", "a", "y", "m", "e", "n", "t", "_", "m", "e", "t", "h", "o", "d", "_", "t", "o", "k", "e", "n" >>
paymentMethodToken == << "p", "a", "y", "m", "e", "n", "t", "M", "e", "t", "h", "o", "d", "T", "o", "k", "e", "n" >>

Names ==
    UNION {[1..n -> NameAlphabet] : n \in 0..MaxNameLen}
        \cup {payment_method_token, paymentMethodToken}

CaseInit ==
    /\ TransportIdle
    /\ NodeIdle
    /\ \E name \in Names :
          fx = [op |-> "name", input |-> name, value |-> name, applied |-> << >>]

SnakeToCamel ==
    /\ fx.op = "name"
    /\ Len(fx.applied) < MaxConversions
    /\ fx' = [fx EXCEPT !.value = snakeToCamel(@),
                        !.applied = Append(@, "snakeToCamel")]
    /\ UNCHANGED << transportVars, nodeVars >>

CamelToSnake ==
    /\ fx.op = "name"
    /\ Len(fx.applied) < MaxConversions
    /\ fx' = [fx EXCEPT !.value = camelToSnake(@),
                        !.applied = Append(@, "camelToSnake")]
    /\ UNCHANGED << transportVars, nodeVars >>

CaseNext ==
    \/ SnakeToCamel
    \/ CamelToSnake

CaseSpec == CaseInit /\ [][CaseNext]_vars

\* letters only, an uppercase letter marking each word boundary
IsCamelCase(k) ==
    /\ k # << >>
    /\ \A i \in DOMAIN k : IsLower(k[i]) \/ IsUpper(k[i])

\* lowercase words separated by single underscores
IsSnakeCase(k) ==
    /\ k # << >>
    /\ \A i \in DOMAIN k : IsLower(k[i]) \/ k[i] = "_"
    /\ k[1] # "_" /\ k[Len(k)] # "_"
    /\ \A i \in 1..(Len(k) - 1) : ~(k[i] = "_" /\ k[i + 1] = "_")

\* C17: snakeToCamel(camelToSnake(k)) = k for every camelCase identifier k,
\* camelToSnake(snakeToCamel(s)) = s for every snake_case identifier s, and
\* payment_method_token and paymentMethodToken map to each other.
C17_RoundTrips ==
    fx.op = "name" =>
        /\ fx.applied = << "camelToSnake", "snakeToCamel" >> /\ IsCamelCase(fx.input)
              => fx.value = fx.input
        /\ fx.applied = << "snakeToCamel", "camelToSnake" >> /\ IsSnakeCase(fx.input)
              => fx.value = fx.input
        /\ fx.applied = << "snakeToCamel" >> /\ fx.input = payment_method_token
              => fx.value = paymentMethodToken
        /\ fx.applied = << "camelToSnake" >> /\ fx.input = paymentMethodToken
              => fx.value = payment_method_token

\* C17 witness: paymentMethodToken went to payment_method_token and back.
C17_Witness ==
    /\ fx.op = "name"
    /\ fx.input = paymentMethodToken
    /\ fx.applied = << "camelToSnake", "snakeToCamel" >>
    /\ camelToSnake(fx.input) = payment_method_token
    /\ fx.value = paymentMethodToken


(***************************************************************************)
(* Deep key conversion (utils/index.ts).  A mapping is the sequence of its *)
(* entries in insertion order, which is the order of Object.keys.          *)
(***************************************************************************)
Null == [type |-> "null"]
ObjectOf(entries) == [type |-> "object", entries |-> entries]
Entry(key, value) == [key |-> key, value |-> value]

KeysOf(entries) == {entries[i].key : i \in DOMAIN entries}

\* result[key] = value: an existing key keeps its place, a new one goes last
Assign(entries, key, value) ==
    IF key \in KeysOf(entries)
    THEN [i \in DOMAIN entries |->
            IF entries[i].key = key THEN Entry(key, value) ELSE entries[i]]
    ELSE Append(entries, Entry(key, value))

\* obj !== null && typeof obj === 'object', for a value that is no array
IsObject(obj) == obj.type = "object"

\* convertKeysToCamel converting the keys of the outermost mapping only.
RECURSIVE convertKeysToCamel_ShallowReduce(_, _)
convertKeysToCamel_ShallowReduce(entries, n) ==
    IF n = 0 THEN << >>
    ELSE Assign(convertKeysToCamel_ShallowReduce(entries, n - 1),
                snakeToCamel(entries[n].key), entries[n].value)

convertKeysToCamel_Shallow(obj) ==
    IF IsArray(obj) THEN obj
    ELSE IF IsObject(obj)
    THEN ObjectOf(convertKeysToCamel_ShallowReduce(obj.entries, Len(obj.entries)))
    ELSE obj

RECURSIVE convertKeysToCamel(_)
RECURSIVE convertKeysToSnake(_)

\* Object.keys(obj).reduce(..., {}) over the first n keys
RECURSIVE reduceToCamel(_, _)
reduceToCamel(entries, n) ==
    IF n = 0 THEN << >>
    ELSE Assign(reduceToCamel(entries, n - 1),
                snakeToCamel(entries[n].key),
                convertKeysToCamel(entries[n].value))

convertKeysToCamel(obj) ==
    IF IsArray(obj)
    THEN ArrayVal([i \in DOMAIN obj.items |-> convertKeysToCamel(obj.items[i])])
    ELSE IF IsObject(obj)
    THEN ObjectOf(reduceToCamel(obj.entries, Len(obj.entries)))
    ELSE obj

RECURSIVE reduceToSnake(_, _)
reduceToSnake(entries, n) ==
    IF n = 0 THEN << >>
    ELSE Assign(reduceToSnake(entries, n - 1),
                camelToSnake(entries[n].key),
                convertKeysToSnake(entries[n].value))

convertKeysToSnake(obj) ==
    IF IsArray(obj)
    THEN ArrayVal([i \in DOMAIN obj.items |-> convertKeysToSnake(obj.items[i])])
    ELSE IF IsObject(obj)
    THEN ObjectOf(reduceToSnake(obj.entries, Len(obj.entries)))
    ELSE obj

(***************************************************************************)
(* The deep conversions applied to a value of a bounded number of nodes.   *)
(***************************************************************************)
MaxNodes == 3

a_b == << "a", "_", "b" >>
aB == << "a", "B" >>
KeyNames == {a_b, aB, << "c" >>}

\* null, a number, and a string that looks like a key
Scalars == {Null, NumberOf(0), StringOf("a_b")}

\* the values of exactly n nodes: a scalar or an empty container is one
\* node, a container is a smaller one with one more element or entry
RECURSIVE ValuesOfSize(_)
ValuesOfSize(n) ==
    (IF n = 1 THEN Scalars \cup {ArrayVal(<< >>), ObjectOf(<< >>)} ELSE {})
      \cup UNION { LET added == ValuesOfSize(k)
                       smaller == ValuesOfSize(n - k)
                       arrays == {c \in smaller : IsArray(c)}
                       objects == {c \in smaller : IsObject(c)}
                   IN  {ArrayVal(Append(c.items, v)) : c \in arrays, v \in added}
                         \cup
                       {ObjectOf(Append(e[1].entries, Entry(e[2], e[3]))) :
                          e \in {y \in objects \X KeyNames \X added :
                                   y[2] \notin KeysOf(y[1].entries)}} :
                 k \in 1..(n - 1) }

Values == UNION {ValuesOfSize(n) : n \in 1..MaxNodes}

KeysInit ==
    /\ TransportIdle
    /\ NodeIdle
    /\ \E obj \in Values : fx = [op |-> "value", input |-> obj]

ConvertKeysToCamel ==
    /\ fx.op = "value"
    /\ fx' = [op |-> "convertKeysToCamel", input |-> fx.input,
              output |-> convertKeysToCamel(fx.input)]
    /\ UNCHANGED << transportVars, nodeVars >>

ConvertKeysToSnake ==
    /\ fx.op = "value"
    /\ fx' = [op |-> "convertKeysToSnake", input |-> fx.input,
              output |-> convertKeysToSnake(fx.input)]
    /\ UNCHANGED << transportVars, nodeVars >>

KeysNext ==
    \/ ConvertKeysToCamel
    \/ ConvertKeysToSnake

KeysSpec == KeysInit /\ [][KeysNext]_vars

\* the key conversion a deep conversion applies
KeyConversion(fn, key) ==
    IF fn = "convertKeysToCamel" THEN snakeToCamel(key) ELSE camelToSnake(key)

\* out is obj with the keys of every mapping converted, at every depth:
\* sequences element by element, mappings key by key, anything else as it is
RECURSIVE IsDeepConversion(_, _, _)
IsDeepConversion(fn, obj, out) ==
    CASE obj.type = "array" ->
            /\ out.type = "array"
            /\ Len(out.items) = Len(obj.items)
            /\ \A i \in DOMAIN obj.items :
                  IsDeepConversion(fn, obj.items[i], out.items[i])
      [] obj.type = "object" ->
            /\ out.type = "object"
            /\ KeysOf(out.entries) =
                  {KeyConversion(fn, key) : key \in KeysOf(obj.entries)}
            /\ \A j \in DOMAIN out.entries :
                  \E i \in DOMAIN obj.entries :
                     /\ out.entries[j].key = KeyConversion(fn, obj.entries[i].key)
                     /\ IsDeepConversion(fn, obj.entries[i].value,
                                         out.entries[j].value)
      [] OTHER -> out = obj

KeysConverted == fx.op \in {"convertKeysToCamel", "convertKeysToSnake"}

\* C18: convertKeysToCamel and convertKeysToSnake convert the keys of every
\* mapping at every nesting depth, map sequences element by element keeping
\* order and length, and return every scalar (null included) unchanged.
C18_DeepConversion ==
    KeysConverted => IsDeepConversion(fx.op, fx.input, fx.output)

\* C18 witness: { a_b: { a_b: null } } became { aB: { aB: null } }.
C18_Witness ==
    /\ fx.op = "convertKeysToCamel"
    /\ fx.input = ObjectOf(<< Entry(a_b, ObjectOf(<< Entry(a_b, Null) >>)) >>)
    /\ fx.output = ObjectOf(<< Entry(aB, ObjectOf(<< Entry(aB, Null) >>)) >>)


(***************************************************************************)
(* simplifyResponse (utils/index.ts) on an envelope.                       *)
(***************************************************************************)
BooleanOf(b) == [type |-> "boolean", boolean |-> b]

\* the truthiness `if (v)` tests
ToBoolean(v) ==
    CASE v.type \in {"undefined", "null"} -> FALSE
      [] v.type = "boolean" -> v.boolean
      [] v.type = "number" -> v.number # 0
      [] v.type = "string" -> v.string # ""
      [] OTHER -> TRUE

HasKey(obj, key) == key \in KeysOf(obj.entries)

\* obj[key]
Member(obj, key) ==
    IF HasKey(obj, key)
    THEN obj.entries[CHOOSE i \in DOMAIN obj.entries : obj.entries[i].key = key].value
    ELSE UndefinedVal

\* simplifyResponse testing that the key is present.
simplifyResponse_KeyPresent(data, type) ==
    IF HasKey(data, type) THEN Member(data, type) ELSE data

\* if (data[type]) return data[type]; return data
simplifyResponse(data, type) ==
    IF ToBoolean(Member(data, type)) THEN Member(data, type) ELSE data

T1 == ObjectOf(<< Entry("token", StringOf("T1")) >>)

EnvelopeKeys == {"transaction", "token"}
ResourceTypes == {"transaction", "gateway"}
EnvelopeValues ==
    { T1, ObjectOf(<< >>), ArrayVal(<< >>), StringOf("T1"), StringOf(""),
      NumberOf(0), NumberOf(1), BooleanOf(FALSE), BooleanOf(TRUE), Null }

Envelopes ==
    {ObjectOf(<< >>)}
      \cup {ObjectOf(<< Entry(k, v) >>) : k \in EnvelopeKeys, v \in EnvelopeValues}
      \cup {ObjectOf(<< Entry(k[1], v[1]), Entry(k[2], v[2]) >>) :
              k \in {x \in EnvelopeKeys \X EnvelopeKeys : x[1] # x[2]},
              v \in EnvelopeValues \X EnvelopeValues}

SimplifyInit ==
    /\ TransportIdle
    /\ NodeIdle
    /\ \E data \in Envelopes, type \in ResourceTypes :
          fx = [op |-> "envelope", data |-> data, type |-> type]

\* the call reads data and assigns nothing
SimplifyResponse ==
    /\ fx.op = "envelope"
    /\ fx' = [op |-> "simplifyResponse", given |-> fx.data, data |-> fx.data,
              type |-> fx.type, output |-> simplifyResponse(fx.data, fx.type)]
    /\ UNCHANGED << transportVars, nodeVars >>

SimplifyNext == SimplifyResponse

SimplifySpec == SimplifyInit /\ [][SimplifyNext]_vars

Simplified == fx.op = "simplifyResponse"

\* C19 as stated: the value stored at the key whenever the envelope has the
\* key, whatever the value is; the envelope itself when the key is absent;
\* the envelope is not modified.
C19_Original ==
    Simplified =>
        /\ HasKey(fx.given, fx.type) => fx.output = Member(fx.given, fx.type)
        /\ ~HasKey(fx.given, fx.type) => fx.output = fx.given
        /\ fx.data = fx.given

\* C19 amended: the value stored at the key when that value is truthy; the
\* envelope itself when the key is absent or its value is falsy (null,
\* false, 0, the empty string); the envelope is not modified.
C19_ValueWhenTruthy ==
    Simplified =>
        /\ HasKey(fx.given, fx.type) /\ ToBoolean(Member(fx.given, fx.type))
              => fx.output = Member(fx.given, fx.type)
        /\ ~HasKey(fx.given, fx.type) \/ ~ToBoolean(Member(fx.given, fx.type))
              => fx.output = fx.given
        /\ fx.data = fx.given

\* C19 witness: { transaction: { token: "T1" } } unwrapped to { token: "T1" }.
C19_Witness ==
    /\ Simplified
    /\ fx.given = ObjectOf(<< Entry("transaction", T1) >>)
    /\ fx.type = "transaction"
    /\ fx.output = T1


(***************************************************************************)
(* The two nodes in one process: Spreedly.execute and                      *)
(* SpreedlyTrigger.webhook share the module utils and with it the latch    *)
(* licensingNoticeDisplayed.  runs holds the execute invocations in the    *)
(* order they began, fx the last webhook request.  webhook has no await    *)
(* and runs to its end in one step; execute is suspended while the         *)
(* operation of an item is awaited, and other invocations begin and        *)
(* proceed meanwhile.                                                      *)
(***************************************************************************)
MaxRuns == 1
MaxItems == 2

LICENSING_NOTICE == "[Velocity BPA Licensing Notice]"
ReceivedAt == "<new Date().toISOString()>"

\* displayLicensingNotice printing without closing the latch.
displayLicensingNotice_NoLatch ==
    /\ consoleLog' = Append(consoleLog, LICENSING_NOTICE)
    /\ UNCHANGED licensingNoticeDisplayed

\* if (!licensingNoticeDisplayed) { console.warn(...); latch = true }
displayLicensingNotice ==
    IF ~licensingNoticeDisplayed
    THEN /\ consoleLog' = Append(consoleLog, LICENSING_NOTICE)
         /\ licensingNoticeDisplayed' = TRUE
    ELSE UNCHANGED << licensingNoticeDisplayed, consoleLog >>

\* ---- Spreedly.execute ----
SupportedResources ==
    {"gateway", "paymentMethod", "transaction", "threeDSecure", "receiver",
     "certificate"}
GatewayOperations == {"create", "get", "list", "update", "redact", "retain"}

\* values of the node parameters resource and operation: supported ones,
\* an unknown operation, an unknown resource
Supported == [resource |-> "gateway", operation |-> "list"]
NodeParameters ==
    { Supported, [resource |-> "gateway", operation |-> "launch"],
      [resource |-> "widget", operation |-> "get"] }

\* the parameters evaluated for item 0 and for the items after it: the same
\* values, or values that differ from item to item
ParameterTables ==
    {[first |-> Supported, rest |-> p] : p \in NodeParameters}
      \cup {[first |-> p, rest |-> Supported] : p \in NodeParameters}

\* this.getNodeParameter(name, i)
getNodeParameter(run, name, i) ==
    IF i = 0 THEN run.parameters.first[name] ELSE run.parameters.rest[name]

UnknownResource(resource) ==
    [message |-> "Unknown resource: " \o resource]
UnknownOperation(operation) ==
    [message |-> "Unknown gateway operation: " \o operation]
OperationFailed == [message |-> "Spreedly API Error: request failed"]
NoError == [message |-> ""]

\* ParameterError reading the parameters of the item at hand.
ParameterError_PerItem(run) ==
    IF getNodeParameter(run, "resource", run.i) \notin SupportedResources
    THEN UnknownResource(getNodeParameter(run, "resource", run.i))
    ELSE IF getNodeParameter(run, "operation", run.i) \notin GatewayOperations
    THEN UnknownOperation(getNodeParameter(run, "operation", run.i))
    ELSE NoError

\* the error thrown before any request is made, if there is one
ParameterError(run) ==
    IF run.resource \notin SupportedResources THEN UnknownResource(run.resource)
    ELSE IF run.operation \notin GatewayOperations THEN UnknownOperation(run.operation)
    ELSE NoError

\* ErrorEntry pairing the entry with the first item.
ErrorEntry_FirstItem(error, i) ==
    [json |-> [error |-> error.message], pairedItem |-> [item |-> 0]]

ErrorEntry(error, i) ==
    [json |-> [error |-> error.message], pairedItem |-> [item |-> i]]

\* the k-th entry an operation returns for item i: prepareOutputData gives
\* { json } without pairedItem
ResultEntry(i, k) == [json |-> [item |-> i, entry |-> k]]

\* the number of entries a list operation returns
ResultCounts == {0, 2}

\* the operation of item i returned count entries / threw error
Succeeded(count) == [ok |-> TRUE, count |-> count]
Failed(error) == [ok |-> FALSE, error |-> error]

\* catch (error): the error entry and the next item, or the error rethrown
Catch(run, error) ==
    IF run.continueOnFail
    THEN [run EXCEPT !.returnData = Append(@, ErrorEntry(error, run.i)),
                     !.outcomes = Append(@, Failed(error)),
                     !.i = @ + 1]
    ELSE [run EXCEPT !.outcomes = Append(@, Failed(error)),
                     !.result = Thrown(error)]

\* Loop sending the request of the next item although an error was thrown.
RECURSIVE Loop_KeepGoing(_)
Loop_KeepGoing(run) ==
    IF run.result # Pending
    THEN IF run.i + 1 < run.items
         THEN [run EXCEPT !.requests = Append(@, run.i + 1)] ELSE run
    ELSE IF run.i >= run.items
    THEN [run EXCEPT !.result = Returned(<< run.returnData >>)]
    ELSE IF ParameterError(run) # NoError
    THEN Loop_KeepGoing(Catch(run, ParameterError(run)))
    ELSE [run EXCEPT !.requests = Append(@, run.i)]

\* the loop from item run.i on, up to the next await of a request or the end
RECURSIVE Loop(_)
Loop(run) ==
    IF run.result # Pending THEN run
    ELSE IF run.i >= run.items
    THEN [run EXCEPT !.result = Returned(<< run.returnData >>)]
    ELSE IF ParameterError(run) # NoError
    THEN Loop(Catch(run, ParameterError(run)))
    ELSE [run EXCEPT !.requests = Append(@, run.i)]

Awaiting(run) ==
    /\ run.fn = "execute"
    /\ run.result = Pending
    /\ run.requests # << >>
    /\ run.requests[Len(run.requests)] = run.i

Execute ==
    /\ Len(runs) < MaxRuns
    /\ \E items \in 0..MaxItems, continueOnFail \in BOOLEAN,
          parameters \in ParameterTables :
          runs' = Append(runs,
                Loop([fn |-> "execute", items |-> items,
                      continueOnFail |-> continueOnFail,
                      parameters |-> parameters,
                      resource |-> parameters.first.resource,
                      operation |-> parameters.first.operation,
                      i |-> 0, returnData |-> << >>, requests |-> << >>,
                      outcomes |-> << >>, result |-> Pending]))
    /\ displayLicensingNotice
    /\ UNCHANGED << transportVars, fx >>

\* the awaited operation of item i returns its entries
OperationSucceeds ==
    /\ \E r \in DOMAIN runs, count \in ResultCounts :
          /\ Awaiting(runs[r])
          /\ runs' = [runs EXCEPT ![r] =
                Loop([@ EXCEPT
                        !.returnData = @ \o [k \in 1..count |-> ResultEntry(runs[r].i, k)],
                        !.outcomes = Append(@, Succeeded(count)),
                        !.i = @ + 1])]
    /\ UNCHANGED << transportVars, fx, licensingNoticeDisplayed, consoleLog >>

\* the awaited operation of item i throws
OperationFails ==
    /\ \E r \in DOMAIN runs :
          /\ Awaiting(runs[r])
          /\ runs' = [runs EXCEPT ![r] = Loop(Catch(@, OperationFailed))]
    /\ UNCHANGED << transportVars, fx, licensingNoticeDisplayed, consoleLog >>

\* ---- SpreedlyTrigger.webhook ----
\* v?.key
FieldOf(v, key) == IF IsObject(v) THEN Member(v, key) ELSE UndefinedVal

PayloadTypes == << "transaction", "payment_method", "gateway", "receiver", "certificate" >>

\* parseWebhookPayload testing that the key is present.
parseWebhookPayload_KeyPresent(body) ==
    LET present == {n \in DOMAIN PayloadTypes : HasKey(body, PayloadTypes[n])}
    IN  IF present = {}
        THEN [receivedAt |-> ReceivedAt, type |-> "unknown", data |-> body]
        ELSE LET first == CHOOSE n \in present : \A m \in present : n <= m
             IN  [receivedAt |-> ReceivedAt, type |-> PayloadTypes[first],
                  data |-> Member(body, PayloadTypes[first])]

parseWebhookPayload(body) ==
    LET present == {n \in DOMAIN PayloadTypes : ToBoolean(Member(body, PayloadTypes[n]))}
    IN  IF present = {}
        THEN [receivedAt |-> ReceivedAt, type |-> "unknown", data |-> body]
        ELSE LET first == CHOOSE n \in present : \A m \in present : n <= m
             IN  [receivedAt |-> ReceivedAt, type |-> PayloadTypes[first],
                  data |-> Member(body, PayloadTypes[first])]

\* EventTypeOf without the case of the storage state cached.
EventTypeOf_NoCached(parsedData) ==
    LET d == parsedData.data
    IN  CASE parsedData.type = "transaction" ->
               IF FieldOf(d, "succeeded") = BooleanOf(TRUE) THEN "transaction.succeeded"
               ELSE IF FieldOf(d, "succeeded") = BooleanOf(FALSE) THEN "transaction.failed"
               ELSE IF FieldOf(d, "state") = StringOf("pending") THEN "transaction.pending"
               ELSE "unknown"
          [] parsedData.type = "payment_method" ->
               IF FieldOf(d, "storage_state") = StringOf("retained") THEN "payment_method.retained"
               ELSE IF FieldOf(d, "storage_state") = StringOf("redacted") THEN "payment_method.redacted"
               ELSE "payment_method.updated"
          [] parsedData.type = "gateway" ->
               IF FieldOf(d, "state") = StringOf("retained") THEN "gateway.retained"
               ELSE IF FieldOf(d, "state") = StringOf("redacted") THEN "gateway.redacted"
               ELSE "gateway.added"
          [] parsedData.type = "receiver" ->
               IF FieldOf(d, "state") = StringOf("redacted") THEN "receiver.redacted"
               ELSE "receiver.added"
          [] parsedData.type = "certificate" -> "certificate.added"
          [] OTHER -> "unknown"

\* the event type the handler determines from the parsed payload
EventTypeOf(parsedData) ==
    LET d == parsedData.data
    IN  CASE parsedData.type = "transaction" ->
               IF FieldOf(d, "succeeded") = BooleanOf(TRUE) THEN "transaction.succeeded"
               ELSE IF FieldOf(d, "succeeded") = BooleanOf(FALSE) THEN "transaction.failed"
               ELSE IF FieldOf(d, "state") = StringOf("pending") THEN "transaction.pending"
               ELSE "unknown"
          [] parsedData.type = "payment_method" ->
               IF FieldOf(d, "storage_state") = StringOf("retained") THEN "payment_method.retained"
               ELSE IF FieldOf(d, "storage_state") = StringOf("redacted") THEN "payment_method.redacted"
               ELSE IF FieldOf(d, "storage_state") = StringOf("cached") THEN "payment_method.added"
               ELSE "payment_method.updated"
          [] parsedData.type = "gateway" ->
               IF FieldOf(d, "state") = StringOf("retained") THEN "gateway.retained"
               ELSE IF FieldOf(d, "state") = StringOf("redacted") THEN "gateway.redacted"
               ELSE "gateway.added"
          [] parsedData.type = "receiver" ->
               IF FieldOf(d, "state") = StringOf("redacted") THEN "receiver.redacted"
               ELSE "receiver.added"
          [] parsedData.type = "certificate" -> "certificate.added"
          [] OTHER -> "unknown"

\* IsSelectedEvent without the case of the empty selection.
IsSelectedEvent_Includes(selectedEvents, eventType) ==
    \E n \in DOMAIN selectedEvents : selectedEvents[n] = eventType

\* selectedEvents.includes(eventType) || selectedEvents.length === 0
IsSelectedEvent(selectedEvents, eventType) ==
    \/ \E n \in DOMAIN selectedEvents : selectedEvents[n] = eventType
    \/ Len(selectedEvents) = 0

\* the handler's return value
WebhookResponse(bodyData, selectedEvents) ==
    LET parsedData == parseWebhookPayload(bodyData)
        eventType == EventTypeOf(parsedData)
    IN  IF ~IsSelectedEvent(selectedEvents, eventType)
        THEN [workflowData |-> << << >> >>]
        ELSE [workflowData |->
                << << [json |-> [event |-> eventType,
                                 receivedAt |-> parsedData.receivedAt,
                                 type |-> parsedData.type,
                                 data |-> parsedData.data,
                                 raw |-> bodyData]] >> >>]

Payload(key, field, value) ==
    ObjectOf(<< Entry(key, ObjectOf(<< Entry(field, value) >>)) >>)

\* what Spreedly sends under each key, by the fields the handler reads
TransactionData ==
    { ObjectOf(succeeded \o state) :
        succeeded \in {<< >>, << Entry("succeeded", BooleanOf(TRUE)) >>,
                       << Entry("succeeded", BooleanOf(FALSE)) >>},
        state \in {<< >>, << Entry("state", StringOf("pending")) >>,
                   << Entry("state", StringOf("succeeded")) >>} }
PaymentMethodData ==
    { ObjectOf(<< >>) }
      \cup { ObjectOf(<< Entry("storage_state", StringOf(s)) >>) :
               s \in {"retained", "redacted", "cached", "used"} }
StateData ==
    { ObjectOf(<< >>) }
      \cup { ObjectOf(<< Entry("state", StringOf(s)) >>) : s \in {"retained", "redacted"} }

\* bodies with one of the five keys, with several of them in either order,
\* with a key whose value is falsy or no object, and with none of them
WebhookBodies ==
    { ObjectOf(<< Entry("transaction", d) >>) : d \in TransactionData }
      \cup { ObjectOf(<< Entry("payment_method", d) >>) : d \in PaymentMethodData }
      \cup { ObjectOf(<< Entry(key, d) >>) : key \in {"gateway", "receiver"}, d \in StateData }
      \cup { ObjectOf(<< Entry("certificate", ObjectOf(<< >>)) >>),
             ObjectOf(<< Entry("gateway", ObjectOf(<< >>)),
                         Entry("transaction", ObjectOf(<< Entry("succeeded", BooleanOf(FALSE)) >>)) >>),
             ObjectOf(<< Entry("certificate", ObjectOf(<< >>)),
                         Entry("receiver", ObjectOf(<< Entry("state", StringOf("redacted")) >>)) >>),
             ObjectOf(<< Entry("transaction", Null),
                         Entry("gateway", ObjectOf(<< Entry("state", StringOf("retained")) >>)) >>),
             ObjectOf(<< Entry("payment_method", BooleanOf(FALSE)) >>),
             ObjectOf(<< Entry("transaction", StringOf("pending")) >>),
             ObjectOf(<< Entry("event", StringOf("ping")) >>),
             ObjectOf(<< >>) }

WEBHOOK_EVENT_TYPES ==
    << "transaction.succeeded", "transaction.failed", "transaction.pending",
       "payment_method.added", "payment_method.retained",
       "payment_method.redacted", "payment_method.updated",
       "gateway.added", "gateway.redacted", "gateway.retained",
       "receiver.added", "receiver.redacted", "certificate.added" >>

\* values of the node parameter events, a multiOptions over WEBHOOK_EVENT_TYPES
EventSelections ==
    { << >>, << "transaction.pending" >>,
      << "transaction.succeeded", "payment_method.retained" >>,
      WEBHOOK_EVENT_TYPES }

\* the requests that arrive while execute invocations are under way
ConcurrentBodies == {Payload("transaction", "succeeded", BooleanOf(TRUE)), ObjectOf(<< >>)}
ConcurrentSelections == {<< "transaction.succeeded" >>}

\* the number of requests the webhook handler has handled
WebhookInvocations == IF fx.op = "webhook" THEN fx.invocation ELSE 0

\* the handler, from its first statement to its return, for a POST with a
\* body of bodies to a trigger listening for a selection of selections
Webhook(bodies, selections) ==
    /\ WebhookInvocations < MaxRuns
    /\ \E bodyData \in bodies, selectedEvents \in selections :
          fx' = [op |-> "webhook", invocation |-> WebhookInvocations + 1,
                 bodyData |-> bodyData,
                 selectedEvents |-> selectedEvents,
                 parsedData |-> parseWebhookPayload(bodyData),
                 eventType |-> EventTypeOf(parseWebhookPayload(bodyData)),
                 response |-> WebhookResponse(bodyData, selectedEvents)]
    /\ displayLicensingNotice
    /\ UNCHANGED << transportVars, runs >>

NodeInit ==
    /\ TransportIdle
    /\ fx = FxIdle
    /\ NodeIdle

NodeNext ==
    \/ Execute
    \/ OperationSucceeds
    \/ OperationFails
    \/ Webhook(ConcurrentBodies, ConcurrentSelections)

NodeSpec == NodeInit /\ [][NodeNext]_vars

\* the trigger node alone, over all the bodies and selections
TriggerNext == Webhook(WebhookBodies, EventSelections)

TriggerSpec == NodeInit /\ [][TriggerNext]_vars

\* no handler of either node has been entered
NoInvocation == runs = << >> /\ WebhookInvocations = 0

\* C20: over any sequence and interleaving of execute and webhook
\* invocations the licensing notice is printed at most once, by the first
\* invocation; the latch never goes back to false, and a later call of
\* displayLicensingNotice changes neither the latch nor the console.
C20_NoticeOnceOnFirstInvocation ==
    /\ [](IF NoInvocation
          THEN ~licensingNoticeDisplayed /\ consoleLog = << >>
          ELSE licensingNoticeDisplayed /\ consoleLog = << LICENSING_NOTICE >>)
    /\ [][/\ licensingNoticeDisplayed => licensingNoticeDisplayed'
          /\ ~NoInvocation =>
                /\ consoleLog' = consoleLog
                /\ licensingNoticeDisplayed' = licensingNoticeDisplayed]_vars

\* C20 witness: a webhook call was handled while an execute invocation was
\* awaiting the operation of its second item, and the notice is on the
\* console once.
C20_Witness ==
    /\ Len(runs) = 1
    /\ Awaiting(runs[1]) /\ runs[1].i = 1
    /\ WebhookInvocations = 1
    /\ consoleLog = << LICENSING_NOTICE >>
    /\ licensingNoticeDisplayed


\* the entries execute has pushed once the first n items are settled as
\* given: the entries of an operation that returned, one entry
\* { error: message } paired with the item for an operation that threw
RECURSIVE OutputOf(_, _)
OutputOf(settled, n) ==
    IF n = 0 THEN << >>
    ELSE OutputOf(settled, n - 1) \o
           (IF settled[n].ok
            THEN [k \in 1..settled[n].count |->
                    [json |-> [item |-> n - 1, entry |-> k]]]
            ELSE << [json |-> [error |-> settled[n].error.message],
                     pairedItem |-> [item |-> n - 1]] >>)

FailedItems(run) == {j \in DOMAIN run.outcomes : ~run.outcomes[j].ok}

\* C21: when the operation of item i fails, with continue-on-fail enabled
\* exactly one entry { error: message } paired with item i is appended at the
\* position of item i and processing continues with item i + 1, so that every
\* item is processed and the output is in input order; with continue-on-fail
\* disabled the same error is rethrown and execute returns no output.
C21_FailedItemHandling ==
    \A r \in DOMAIN runs :
        LET run == runs[r]
        IN  /\ run.continueOnFail =>
                /\ Len(run.outcomes) = run.i
                /\ run.returnData = OutputOf(run.outcomes, run.i)
                /\ run.result # Pending =>
                      /\ run.i = run.items
                      /\ run.result = Returned(<< run.returnData >>)
            /\ ~run.continueOnFail =>
                /\ FailedItems(run) = {} =>
                      /\ Len(run.outcomes) = run.i
                      /\ run.returnData = OutputOf(run.outcomes, run.i)
                      /\ run.result \in {Pending, Returned(<< run.returnData >>)}
                /\ \A j \in FailedItems(run) :
                      /\ j = Len(run.outcomes)
                      /\ j = run.i + 1
                      /\ run.result = Thrown(run.outcomes[j].error)

\* C21 witness: with continue-on-fail enabled the operation of item 0
\* returned two entries, that of item 1 threw, and execute returned the two
\* entries followed by the error entry of item 1.
C21_Witness ==
    \E r \in DOMAIN runs :
        /\ runs[r].continueOnFail
        /\ runs[r].items = 2
        /\ runs[r].outcomes = << Succeeded(2), Failed(OperationFailed) >>
        /\ runs[r].result = Returned(<< runs[r].returnData >>)
        /\ Len(runs[r].returnData) = 3


\* a webhook request has been handled
Handled == fx.op = "webhook"

\* the payload is classified by the n-th key of the priority order
ClassifiedBy(n) ==
    /\ fx.parsedData.type = PayloadTypes[n]
    /\ fx.parsedData.data = Member(fx.bodyData, PayloadTypes[n])

ClassifiedUnknown ==
    /\ fx.parsedData.type = "unknown"
    /\ fx.parsedData.data = fx.bodyData

\* C22 as stated: the type is the first of the five keys that is present in
\* the body, whatever its value.
C22_Original ==
    Handled =>
        /\ \A n \in DOMAIN PayloadTypes :
              (/\ HasKey(fx.bodyData, PayloadTypes[n])
               /\ \A m \in 1..(n - 1) : ~HasKey(fx.bodyData, PayloadTypes[m]))
                 => ClassifiedBy(n)
        /\ (\A n \in DOMAIN PayloadTypes : ~HasKey(fx.bodyData, PayloadTypes[n]))
              => ClassifiedUnknown

\* C22: parseWebhookPayload sets type to the first of transaction,
\* payment_method, gateway, receiver, certificate whose value in the body is
\* truthy, in that priority order whatever the order of the keys in the body,
\* with data the value at that key; when none of the five has a truthy value
\* (absent, null, false, 0, '') type is 'unknown' and data is the whole body.
C22_FirstTruthyKey ==
    Handled =>
        /\ \A n \in DOMAIN PayloadTypes :
              (/\ ToBoolean(Member(fx.bodyData, PayloadTypes[n]))
               /\ \A m \in 1..(n - 1) : ~ToBoolean(Member(fx.bodyData, PayloadTypes[m])))
                 => ClassifiedBy(n)
        /\ (\A n \in DOMAIN PayloadTypes : ~ToBoolean(Member(fx.bodyData, PayloadTypes[n])))
              => ClassifiedUnknown

\* C22 witness: a body holding gateway and then transaction is classified as
\* a transaction.
C22_Witness ==
    /\ Handled
    /\ Len(fx.bodyData.entries) = 2
    /\ fx.bodyData.entries[1].key = "gateway"
    /\ fx.bodyData.entries[2].key = "transaction"
    /\ ClassifiedBy(1)


\* the handled payload is a transaction whose field has the value given
TransactionWith(field, value) ==
    /\ Handled
    /\ fx.parsedData.type = "transaction"
    /\ FieldOf(fx.parsedData.data, field) = value

\* the workflow items the handler emitted
Emitted == fx.response.workflowData[1]

\* C23: every transaction payload whose state is 'pending' is classified as
\* transaction.pending, every other transaction that succeeded as
\* transaction.succeeded and every other transaction that failed as
\* transaction.failed, and a trigger listening for transaction.pending only
\* emits an item for every pending transaction.
C23_PendingIsPending ==
    /\ TransactionWith("state", StringOf("pending")) =>
          /\ fx.eventType = "transaction.pending"
          /\ fx.selectedEvents = << "transaction.pending" >> => Len(Emitted) = 1
    /\ (/\ TransactionWith("succeeded", BooleanOf(TRUE))
        /\ ~TransactionWith("state", StringOf("pending"))) =>
          fx.eventType = "transaction.succeeded"
    /\ (/\ TransactionWith("succeeded", BooleanOf(FALSE))
        /\ ~TransactionWith("state", StringOf("pending"))) =>
          fx.eventType = "transaction.failed"


(***************************************************************************)
(* isValidCreditCardNumber.  A string is the sequence of its characters.   *)
(***************************************************************************)
DigitChars == << "0", "1", "2", "3", "4", "5", "6", "7", "8", "9" >>

\* /\D/ matches every character that is none of 0-9
IsDigitChar(c) == \E d \in DOMAIN DigitChars : DigitChars[d] = c

\* parseInt(c, 10) of a digit character
parseInt(c) == (CHOOSE d \in DOMAIN DigitChars : DigitChars[d] = c) - 1

\* cardNumber.replace(/\D/g, '')
StripNonDigits(cardNumber) == SelectSeq(cardNumber, IsDigitChar)

\* LuhnLoop without the subtraction of 9 from a doubled digit above 9.
RECURSIVE LuhnLoop_NoSubtract(_, _, _, _)
LuhnLoop_NoSubtract(digits, i, sum, isEven) ==
    IF i < 1 THEN sum
    ELSE LET digit == parseInt(digits[i])
         IN  LuhnLoop_NoSubtract(digits, i - 1,
                                 sum + (IF isEven THEN digit * 2 ELSE digit), ~isEven)

\* for (let i = digits.length - 1; i >= 0; i--), with i counted from 1
RECURSIVE LuhnLoop(_, _, _, _)
LuhnLoop(digits, i, sum, isEven) ==
    IF i < 1 THEN sum
    ELSE LET digit == parseInt(digits[i])
             doubled == IF digit * 2 > 9 THEN digit * 2 - 9 ELSE digit * 2
         IN  LuhnLoop(digits, i - 1,
                      sum + (IF isEven THEN doubled ELSE digit), ~isEven)

isValidCreditCardNumber(cardNumber) ==
    LET digits == StripNonDigits(cardNumber)
    IN  IF Len(digits) < 13 \/ Len(digits) > 19 THEN FALSE
        ELSE LuhnLoop(digits, Len(digits), 0, FALSE) % 10 = 0

\* the characters of a sequence of digits
CharsOf(number) == [p \in DOMAIN number |-> DigitChars[number[p] + 1]]

Zeros(n) == [p \in 1..n |-> 0]

\* card numbers of 12, 13, 16, 19 and 20 digits
BaseNumbers ==
    { << 4,1,1,1, 1,1,1,1, 1,1,1,1, 1,1,1,1 >>,
      << 5,5,0,0, 0,0,0,0, 0,0,0,0, 0,0,0,4 >>,
      << 1,2,3,4, 5,6,7,8, 9,0,1,2, 3,4,5,6 >>,
      << 4,2,2,2, 2,2,2,2, 2,2,2,2, 2 >>,
      << 6,0,1,1, 0,0,0,9, 9,0,1,3, 9,4,2,4, 1,2,5 >>,
      Zeros(12), Zeros(19), Zeros(20) }

Separators == {" ", "-", "x"}

\* the base numbers, with one digit replaced, cut short, with one separator
\* inserted or with separators between the groups of four, and strings
\* without a digit
CardNumbers ==
    { CharsOf(b) : b \in BaseNumbers }
      \cup UNION { { CharsOf([b EXCEPT ![x[1]] = x[2]]) : x \in (DOMAIN b) \X (0..9) } :
                     b \in BaseNumbers }
      \cup { CharsOf(SubSeq(b, 1, Min(n, Len(b)))) : n \in {0, 3, 12, 13, 14, 15}, b \in BaseNumbers }
      \cup { LET c == CharsOf(b)
                 n == Min(x[1], Len(b))
             IN  SubSeq(c, 1, n) \o << x[2] >> \o SubSeq(c, n + 1, Len(c)) :
               x \in {0, 4, 13, 16} \X Separators, b \in BaseNumbers }
      \cup { LET c == CharsOf(b)
             IN  SubSeq(c, 1, 4) \o << sep >> \o SubSeq(c, 5, 8) \o << sep >>
                   \o SubSeq(c, 9, 12) \o << sep >> \o SubSeq(c, 13, Len(c)) :
               sep \in Separators, b \in BaseNumbers }
      \cup { << >>, << " " >>, << "x", "-" >> }

CardInit ==
    /\ TransportIdle
    /\ NodeIdle
    /\ \E cardNumber \in CardNumbers : fx = [op |-> "card", cardNumber |-> cardNumber]

IsValidCreditCardNumber ==
    /\ fx.op = "card"
    /\ fx' = [op |-> "isValidCreditCardNumber", cardNumber |-> fx.cardNumber,
              valid |-> isValidCreditCardNumber(fx.cardNumber)]
    /\ UNCHANGED << transportVars, nodeVars >>

CardNext == IsValidCreditCardNumber

CardSpec == CardInit /\ [][CardNext]_vars

\* the digits of a string, from the right: DigitsFromRight(s)[1] is the last
DigitsFromRight(cardNumber) ==
    LET positions == {p \in DOMAIN cardNumber : IsDigitChar(cardNumber[p])}
        \* the r-th digit position counted from the right end
        nth[r \in 1..Cardinality(positions)] ==
            CHOOSE p \in positions : Cardinality({q \in positions : q >= p}) = r
    IN  [r \in 1..Cardinality(positions) |-> parseInt(cardNumber[nth[r]])]

\* the Luhn sum: every second digit from the right doubled, minus 9 when
\* above 9
RECURSIVE LuhnSum(_, _)
LuhnSum(fromRight, r) ==
    IF r = 0 THEN 0
    ELSE LuhnSum(fromRight, r - 1)
           + (IF r % 2 = 1 THEN fromRight[r]
              ELSE IF 2 * fromRight[r] > 9 THEN 2 * fromRight[r] - 9
              ELSE 2 * fromRight[r])

\* C24: isValidCreditCardNumber(s) is true exactly when, after removing every
\* non-digit character from s, the number of digits is between 13 and 19
\* inclusive and the Luhn sum is a multiple of 10; it is false for the empty
\* string and for any input with fewer than 13 digits.
C24_LuhnAndLength ==
    fx.op = "isValidCreditCardNumber" =>
        LET fromRight == DigitsFromRight(fx.cardNumber)
        IN  /\ fx.valid <=> /\ Len(fromRight) >= 13
                            /\ Len(fromRight) <= 19
                            /\ LuhnSum(fromRight, Len(fromRight)) % 10 = 0
            /\ Len(fromRight) < 13 => ~fx.valid
            /\ fx.cardNumber = << >> => ~fx.valid

\* C24 witness: "4111-1111-1111-1111" is valid.
C24_Witness ==
    /\ fx.op = "isValidCreditCardNumber"
    /\ Len(fx.cardNumber) = 19
    /\ fx.cardNumber[5] = "-"
    /\ fx.cardNumber[1] = "4"
    /\ fx.valid


\* the classified event type is among the selected events
AmongSelected == \E n \in DOMAIN fx.selectedEvents : fx.selectedEvents[n] = fx.eventType

StateFields ==
    [transaction |-> {"state", "succeeded"}, payment_method |-> {"storage_state"},
     gateway |-> {"state"}, receiver |-> {"state"}]

\* every payload of the same parsed type whose data agrees with the handled
\* one on the fields given gets the same event name
DeterminedBy(fields) ==
    \A body \in WebhookBodies :
        LET other == parseWebhookPayload(body)
        IN  (/\ other.type = fx.parsedData.type
             /\ \A f \in fields : FieldOf(other.data, f) = FieldOf(fx.parsedData.data, f))
               => EventTypeOf(other) = fx.eventType

\* the handled payload has the parsed type given and the value given at field
Parsed(type, field, value) ==
    /\ fx.parsedData.type = type
    /\ FieldOf(fx.parsedData.data, field) = value

\* the event names stated for payment_method, gateway, receiver and
\* certificate, all among the WEBHOOK_EVENT_TYPES or 'unknown', and the same
\* whatever events are selected
StatedEventNames ==
    /\ fx.eventType \in {WEBHOOK_EVENT_TYPES[n] : n \in DOMAIN WEBHOOK_EVENT_TYPES} \cup {"unknown"}
    /\ fx.parsedData.type = "payment_method" =>
          fx.eventType =
            (CASE Parsed("payment_method", "storage_state", StringOf("retained")) -> "payment_method.retained"
               [] Parsed("payment_method", "storage_state", StringOf("redacted")) -> "payment_method.redacted"
               [] Parsed("payment_method", "storage_state", StringOf("cached")) -> "payment_method.added"
               [] OTHER -> "payment_method.updated")
    /\ fx.parsedData.type = "gateway" =>
          fx.eventType =
            (CASE Parsed("gateway", "state", StringOf("retained")) -> "gateway.retained"
               [] Parsed("gateway", "state", StringOf("redacted")) -> "gateway.redacted"
               [] OTHER -> "gateway.added")
    /\ fx.parsedData.type = "receiver" =>
          fx.eventType = (IF Parsed("receiver", "state", StringOf("redacted"))
                          THEN "receiver.redacted" ELSE "receiver.added")
    /\ fx.parsedData.type = "certificate" => fx.eventType = "certificate.added"
    /\ \A selectedEvents \in EventSelections :
          \A n \in DOMAIN WebhookResponse(fx.bodyData, selectedEvents).workflowData[1] :
              WebhookResponse(fx.bodyData, selectedEvents).workflowData[1][n].json.event
                = fx.eventType

\* C26 as stated: the event name is a function of the parsed type and one
\* state field only, for every parsed type.
C26_Original ==
    Handled =>
        /\ StatedEventNames
        /\ IF fx.parsedData.type \in DOMAIN StateFields
           THEN \E field \in StateFields[fx.parsedData.type] : DeterminedBy({field})
           ELSE DeterminedBy({})

\* C26: the event name is a function of the parsed type and one state field
\* only, except for a transaction, where it is a function of the two fields
\* succeeded and state; it is always one of the 13 WEBHOOK_EVENT_TYPES or
\* 'unknown'; payment_method maps storage_state retained, redacted, cached to
\* .retained, .redacted, .added and anything else to .updated; gateway maps
\* state retained, redacted to .retained, .redacted and anything else to
\* .added; receiver maps state redacted to .redacted and anything else to
\* .added; certificate maps to certificate.added; the selected events have
\* no part in it.
C26_EventNameByTypeAndFields ==
    Handled =>
        /\ StatedEventNames
        /\ IF fx.parsedData.type \in DOMAIN StateFields
           THEN DeterminedBy(StateFields[fx.parsedData.type])
           ELSE DeterminedBy({})

\* C26 witness: a cached payment method was classified as
\* payment_method.added.
C26_Witness ==
    /\ Handled
    /\ Parsed("payment_method", "storage_state", StringOf("cached"))
    /\ fx.eventType = "payment_method.added"


(***************************************************************************)
(* The list operations of gateway, payment method, transaction, receiver   *)
(* and certificate on top of the transport layer.  fx holds the node       *)
(* parameters of the item, whether limit was read, and what the operation  *)
(* returned or threw.                                                      *)
(***************************************************************************)
ListOperations ==
    [ gateway |-> [endpoint |-> "/gateways.json", propertyName |-> "gateways"],
      paymentMethod |-> [endpoint |-> "/payment_methods.json", propertyName |-> "payment_methods"],
      transaction |-> [endpoint |-> "/transactions.json", propertyName |-> "transactions"],
      receiver |-> [endpoint |-> "/receivers.json", propertyName |-> "receivers"],
      certificate |-> [endpoint |-> "/certificates.json", propertyName |-> "certificates"] ]

\* values of the node parameter limit, within its minValue and maxValue
LimitValues == {1, 7, PAGE_SIZE, 100}

\* Slice ignoring its end.
Slice_All(items, start, end) == items

\* items.slice(start, end) of an array of items, for 0 <= start
Slice(items, start, end) ==
    LET to == IF end < 0 THEN Len(items) + end ELSE Min(end, Len(items))
    IN  IF to <= start THEN << >> ELSE SubSeq(items, start + 1, to)

\* prepareOutputData(items)
prepareOutputData(items) == [k \in DOMAIN items |-> [json |-> items[k]]]

TypeError == [message |-> "TypeError"]

\* (response[key] || []).slice(0, limit) handed to prepareOutputData: the
\* entries, or the TypeError of calling slice on an object or map on a string
LimitedOutput(response, key, limit) ==
    LET value == Prop(response, key)
    IN  IF ~TruthyVal(value) THEN Returned(prepareOutputData(Slice(<< >>, 0, limit)))
        ELSE IF IsArray(value) THEN Returned(prepareOutputData(Slice(value.items, 0, limit)))
        ELSE Thrown(TypeError)

ListInit ==
    /\ TransportIdle
    /\ NodeIdle
    /\ \E resource \in DOMAIN ListOperations, returnAll \in BOOLEAN, limit \in LimitValues :
          fx = [op |-> "list", resource |-> resource, returnAll |-> returnAll,
                limit |-> limit, limitRead |-> FALSE, output |-> Pending]

\* list(i) from its first statement to the await of the transport function.
\* propertyName of the call is also the key under which the service answers.
ListCall ==
    /\ fx.op = "list"
    /\ pc = "idle"
    /\ call = NoCall
    /\ credentials' \in Credentials
    /\ server' \in {AnyServer} \cup {srv \in CursorServers : srv.size \in {5, PAGE_SIZE + 5}}
    /\ call' = [fn |-> IF fx.returnAll THEN "spreedlyApiRequestAllItems"
                       ELSE "spreedlyApiRequest",
                method |-> "GET",
                endpoint |-> ListOperations[fx.resource].endpoint,
                propertyName |-> ListOperations[fx.resource].propertyName,
                body |-> EmptyObject, query |-> EmptyObject]
    /\ fx' = [fx EXCEPT !.op = "listing", !.limitRead = ~fx.returnAll]
    /\ UNCHANGED << pc, returnData, responseData, sinceToken, apiArgs, inflight,
                    apiCalls, httpLog, outcomes, result, nodeVars >>

\* the transport function returned: the entries of the operation
ListReturn ==
    /\ fx.op = "listing"
    /\ pc = "done"
    /\ fx' = [fx EXCEPT
                !.op = "listed",
                !.output = IF fx.returnAll
                           THEN Returned(prepareOutputData(result.value))
                           ELSE LimitedOutput(result.value,
                                              ListOperations[fx.resource].propertyName,
                                              fx.limit)]
    /\ UNCHANGED << transportVars, nodeVars >>

\* the transport function threw: list has no catch
ListThrows ==
    /\ fx.op = "listing"
    /\ pc = "failed"
    /\ fx' = [fx EXCEPT !.op = "listed", !.output = result]
    /\ UNCHANGED << transportVars, nodeVars >>

ListNext ==
    \/ ListCall
    \/ CallApiRequest
    \/ CallAllItems
    \/ LoopRequest
    \/ HttpSend
    \/ HttpSucceeds
    \/ HttpFails
    \/ ProcessPage
    \/ ListReturn
    \/ ListThrows

ListSpec == ListInit /\ [][ListNext]_vars

\* the page of the single response: its items, none when the list key is
\* absent
PageOf(response, key) ==
    IF key \in DOMAIN response THEN response[key].items ELSE << >>

\* the single response holds an array at the list key, or not the key
HoldsPage(response, key) == key \in DOMAIN response => response[key].type = "array"

\* C27: a list operation with returnAll false and limit L issues exactly one
\* request, without since_token, and its output is the first min(L, n) items
\* of that page in server order, n being the length of the page and 0 when
\* the list key is absent; with returnAll true the limit is not read and the
\* paginated collector is used.
C27_ListLimit ==
    fx.op \in {"listing", "listed"} =>
        LET key == ListOperations[fx.resource].propertyName
        IN  /\ ~fx.returnAll =>
                /\ call.fn = "spreedlyApiRequest"
                /\ Len(apiCalls) <= 1 /\ Len(httpLog) <= 1
                /\ fx.op = "listed" => Len(apiCalls) = 1 /\ Len(httpLog) = 1
                /\ \A n \in DOMAIN apiCalls : "since_token" \notin DOMAIN apiCalls[n].query
                /\ \A n \in DOMAIN httpLog : "qs" \notin DOMAIN httpLog[n]
                /\ (/\ fx.op = "listed"
                    /\ outcomes[1].ok
                    /\ HoldsPage(outcomes[1].response, key)) =>
                      LET page == PageOf(outcomes[1].response, key)
                      IN  fx.output =
                            Returned([k \in 1..Min(fx.limit, Len(page)) |->
                                        [json |-> page[k]]])
            /\ fx.returnAll =>
                /\ ~fx.limitRead
                /\ call.fn = "spreedlyApiRequestAllItems"
                /\ (fx.op = "listed" /\ result.status = "returned") =>
                      fx.output = Returned([k \in DOMAIN result.value |->
                                              [json |-> result.value[k]]])

\* C27 witness: with limit 7 a page of 20 gateways gave the first 7.
C27_Witness ==
    /\ fx.op = "listed"
    /\ ~fx.returnAll
    /\ fx.limit = 7
    /\ fx.output.status = "returned"
    /\ Len(fx.output.value) = 7
    /\ fx.output.value[7].json = Item(7, Tok(7))
    /\ Len(PageOf(outcomes[1].response, "gateways")) = PAGE_SIZE


\* the n-th page request carries every query parameter of the caller, the
\* cursor taking the place of since_token from the second page on, and the
\* caller's body
CarriesCallerArguments(n) ==
    /\ apiCalls[n].body = call.body
    /\ \A key \in DOMAIN call.query :
          /\ key \in DOMAIN apiCalls[n].query
          /\ (key # "since_token" \/ n = 1) => apiCalls[n].query[key] = call.query[key]
    /\ \A key \in DOMAIN apiCalls[n].query :
          key \in DOMAIN call.query \/ (key = "since_token" /\ n > 1)

\* C28: spreedlyApiRequestAllItems never modifies the query and body
\* mappings passed by its caller: every page request is built from a fresh
\* copy of the query, so that each request carries all of the caller's query
\* parameters and the same body, and after the call, returned or failed, the
\* caller's query has no since_token added to it.
C28_CallerArgumentsUntouched ==
    /\ [][call' = call]_vars
    /\ [](IsAllItems => \A n \in DOMAIN apiCalls : CarriesCallerArguments(n))

\* C28 witness: the collector returned after a second page request that
\* carried the caller's order parameter and a since_token, and the caller's
\* query holds order only.
C28_Witness ==
    /\ IsAllItems
    /\ pc = "done"
    /\ Len(apiCalls) >= 2
    /\ DOMAIN call.query = {"order"}
    /\ DOMAIN apiCalls[2].query = {"order", "since_token"}


\* requests were sent for the items 0, 1, ... in this order, each after the
\* operation of the item before it had settled
InInputOrder(run) ==
    /\ \A n \in DOMAIN run.requests : run.requests[n] = n - 1
    /\ Len(run.requests) <= Len(run.outcomes) + 1

\* C29: with continue-on-fail disabled the items are processed strictly in
\* input order, one at a time; once the operation of item i has failed no
\* request is issued for any item after i; the requests sent before are not
\* undone, and their results are not returned.
C29_StopsAtFirstFailure ==
    /\ [](\A r \in DOMAIN runs :
            (~runs[r].continueOnFail /\ ParameterError(runs[r]) = NoError) =>
                /\ InInputOrder(runs[r])
                /\ \A j \in FailedItems(runs[r]) :
                      /\ \A n \in DOMAIN runs[r].requests : runs[r].requests[n] <= j - 1
                      /\ runs[r].result.status = "thrown")
    /\ [][\A r \in DOMAIN runs :
            ~runs[r].continueOnFail =>
                /\ Len(runs'[r].requests) >= Len(runs[r].requests)
                /\ SubSeq(runs'[r].requests, 1, Len(runs[r].requests)) = runs[r].requests
                /\ FailedItems(runs[r]) # {} => runs'[r] = runs[r]]_vars

\* C29 witness: with continue-on-fail disabled and two items the operation
\* of item 0 threw; the only request is that of item 0 and execute threw.
C29_Witness ==
    \E r \in DOMAIN runs :
        /\ ~runs[r].continueOnFail
        /\ runs[r].items = 2
        /\ runs[r].outcomes = << Failed(OperationFailed) >>
        /\ runs[r].requests = << 0 >>
        /\ runs[r].result = Thrown(OperationFailed)


\* the parameter values are not among the supported ones
Unsupported(p) ==
    p.resource \notin SupportedResources \/ p.operation \notin GatewayOperations

\* the error the claim names for unsupported parameter values
UnknownError(p) ==
    IF p.resource \notin SupportedResources
    THEN [message |-> "Unknown resource: " \o p.resource]
    ELSE [message |-> "Unknown gateway operation: " \o p.operation]

====
